---- MODULE Spec2Model ----
(***************************************************************************)
(* A model of the fnn python toolkit: the layers and the sequential        *)
(* network of test/pyfnn.py, and the keras -> txt writer of                *)
(* src/keras_to_fnn.py with the reader pyfnn.fromfile.                      *)
(*                                                                         *)
(* Numbers are integers (exact arithmetic).  Vectors are sequences, a      *)
(* numpy index k is the sequence index k+1.  An attribute that may not     *)
(* exist yet (DenseLayer.x, activation_prime) is a sequence of length 0    *)
(* (absent) or 1 (present, holding the vector).                            *)
(***************************************************************************)
EXTENDS Integers, Sequences, FiniteSets, TLC

\* layers: SequentialNetwork.layers.  res: what the last call returned or
\* raised.  hist: history of the instance, kept for the properties only: lin
\* is "never" before the first apply_linearise, "current" after one, "mutated"
\* once a parameter was changed after it, "extended" once a layer was added
\* after it; x and y are the input and the value of the last apply_linearise.
VARIABLES layers, res, hist, file, wres, twin, calls

vars == <<layers, res, hist, file, wres, twin, calls>>

\* ------------------------------------------------------------------ bounds
MaxLayers == 2
MaxWidth == 2
NumSeeds == 1
NumAlgSeeds == 2

\* the Keras layers of a converted model
MaxKerasLayers == 2

\* a weight with more significant digits than FLOAT_FORMAT keeps
LongMantissa == 123456789

Widths == 1..MaxWidth

\* ----------------------------------------------------------------- vectors
RECURSIVE SumTo(_, _)
SumTo(f, n) == IF n = 0 THEN 0 ELSE f[n] + SumTo(f, n - 1)

Dot(a, b) == SumTo([i \in 1..Len(a) |-> a[i] * b[i]], Len(a))

VAdd(a, b) == [i \in 1..Len(a) |-> a[i] + b[i]]

VMul(a, b) == [i \in 1..Len(a) |-> a[i] * b[i]]

Zeros(n) == [i \in 1..n |-> 0]

\* python slice p[lo:hi] (0-based, clipped to the length of p)
Slice(p, lo, hi) ==
    LET h == IF hi < Len(p) THEN hi ELSE Len(p)
    IN  IF lo >= h THEN <<>> ELSE [i \in 1..(h - lo) |-> p[lo + i]]

RECURSIVE Concat(_)
Concat(ps) == IF ps = <<>> THEN <<>> ELSE Head(ps) \o Concat(Tail(ps))

Reverse(s) == [i \in 1..Len(s) |-> s[Len(s) + 1 - i]]

\* The values a test draws (np.random.randn, or a caller's vector): vector
\* number `seed` of length n, entries in -3..3.
Gen(seed, i) == ((i * (seed + 1) + seed * seed + 1) % 7) - 3

Vec(seed, n) == [i \in 1..n |-> Gen(seed, i)]

Unit(k, n) == [i \in 1..n |-> IF i = k THEN 1 ELSE 0]

Results(status, value) == [status |-> status, value |-> value]

Ok(v) == Results("ok", v)

Err(e) == Results(e, <<>>)

\* ------------------------------------------------------------- activations
ActivationNames == {"linear", "tanh", "relu"}

\* np.tanh on the integer grid, rounded to the nearest integer: sign(z)
TanhInt(z) == IF z > 0 THEN 1 ELSE IF z < 0 THEN -1 ELSE 0

Max0(z) == IF z > 0 THEN z ELSE 0

ActApply(name, z) ==
    CASE name = "linear" -> z
      [] name = "tanh" -> [i \in 1..Len(z) |-> TanhInt(z[i])]
      [] name = "relu" -> [i \in 1..Len(z) |-> Max0(z[i])]

\* an apply_linearise that would return its argument
ActApplyLinearise_Identity(name, z) == z

\* the value apply_linearise(z) returns: z, y = np.tanh(z), np.maximum(z, 0)
ActApplyLinearise(name, z) ==
    CASE name = "linear" -> z
      [] name = "tanh" -> LET y == [i \in 1..Len(z) |-> TanhInt(z[i])] IN y
      [] name = "relu" -> [i \in 1..Len(z) |-> Max0(z[i])]

\* a relu derivative that would be 1 at z = 0
ActPrime_OneAtZero(name, z) ==
    CASE name = "linear" -> <<>>
      [] name = "tanh" -> << [i \in 1..Len(z) |-> 1 - TanhInt(z[i]) * TanhInt(z[i])] >>
      [] name = "relu" -> << [i \in 1..Len(z) |-> IF z[i] >= 0 THEN 1 ELSE 0] >>

\* activation_prime as apply_linearise(z) stores it; the linear activation
\* stores nothing
ActPrime(name, z) ==
    CASE name = "linear" -> <<>>
      [] name = "tanh" -> << [i \in 1..Len(z) |-> 1 - TanhInt(z[i]) * TanhInt(z[i])] >>
      [] name = "relu" -> << [i \in 1..Len(z) |-> IF z[i] > 0 THEN 1 ELSE 0] >>

\* apply_tangent_linear(dz) and apply_adjoint(dy): prime * d, or d for linear;
\* reading a missing activation_prime is an AttributeError
ActTangentLinear(name, prime, dz) ==
    IF name = "linear" THEN Ok(dz)
    ELSE IF prime = <<>> THEN Err("AttributeError")
    ELSE Ok(VMul(prime[1], dz))

ActAdjoint(name, prime, dy) ==
    IF name = "linear" THEN Ok(dy)
    ELSE IF prime = <<>> THEN Err("AttributeError")
    ELSE Ok(VMul(prime[1], dy))

\* ------------------------------------------------------------------ layers
Absent == <<>>

NoCoef == [scalar |-> TRUE, v |-> <<>>]

Scalar(a) == [scalar |-> TRUE, v |-> <<a>>]

PerElement(v) == [scalar |-> FALSE, v |-> v]

\* alpha * x and x + beta of numpy: a scalar is broadcast
Coef(c, i) == IF c.scalar THEN c.v[1] ELSE c.v[i]

NormalisationLayer(Ninout, alpha, beta) ==
    [kind |-> "normalisation", Nin |-> Ninout, Nout |-> Ninout,
     num_parameters |-> 0, parameters |-> <<>>,
     activation |-> "none", activation_prime |-> Absent, x |-> Absent,
     alpha |-> alpha, beta |-> beta]

\* DenseLayer.initialise on a parameter vector of length n: 'zero', 'randn'
\* (vector number seed) or 'value' (the caller's vector, which numpy accepts
\* when it has the length n, or the length 1 and is broadcast)
Initialise(parameters, initialisation, seed, value) ==
    LET n == Len(parameters)
    IN  CASE initialisation = "zero" -> Ok(Zeros(n))
          [] initialisation = "randn" -> Ok(Vec(seed, n))
          [] initialisation = "value" ->
                IF Len(value) = n THEN Ok(value)
                ELSE IF Len(value) = 1 THEN Ok([i \in 1..n |-> value[1]])
                ELSE Err("ValueError")

\* a lookup that would fall back on the linear activation
construct_activation_Default(name) ==
    IF name \in ActivationNames THEN Ok(name) ELSE Ok("linear")

\* construct_activation: a dictionary lookup of the name
construct_activation(name) ==
    IF name \in ActivationNames THEN Ok(name) ELSE Err("KeyError")

\* DenseLayer.__init__: the result is the new layer, or the error raised
DenseLayer(Nin, Nout, activation, initialisation, seed, value) ==
    LET n == Nout * (Nin + 1)
        init == Initialise(Zeros(n), initialisation, seed, value)
        act == construct_activation(activation)
    IN  IF init.status # "ok" THEN [status |-> init.status, layer |-> <<>>]
        ELSE IF act.status # "ok" THEN [status |-> act.status, layer |-> <<>>]
        ELSE [status |-> "ok",
              layer |-> << [kind |-> "dense", Nin |-> Nin, Nout |-> Nout,
                            num_parameters |-> n, parameters |-> init.value,
                            activation |-> act.value,
                            activation_prime |-> Absent, x |-> Absent,
                            alpha |-> NoCoef, beta |-> NoCoef] >>]

\* a reader that would take the weight block row by row
LayerW_RowMajor(l, j, i) == l.parameters[l.Nout + i + (j - 1) * l.Nin]

\* self.b = parameters[:Nout]; self.w = parameters[Nout:].reshape((Nout, Nin),
\* order='F'): w[j, i] is parameters[Nout + j + i*Nout] (0-based)
LayerB(l, j) == l.parameters[j]

LayerW(l, j, i) == l.parameters[l.Nout + j + (i - 1) * l.Nout]

\* w @ x
MatVec(l, x) ==
    [j \in 1..l.Nout |-> SumTo([i \in 1..l.Nin |-> LayerW(l, j, i) * x[i]], l.Nin)]

\* w.T @ d
MatTVec(l, d) ==
    [i \in 1..l.Nin |-> SumTo([j \in 1..l.Nout |-> LayerW(l, j, i) * d[j]], l.Nout)]

\* a pre-activation that would leave the bias out
PreActivation_NoBias(l, x) == MatVec(l, x)

PreActivation(l, x) == [j \in 1..l.Nout |-> MatVec(l, x)[j] + LayerB(l, j)]

LayerApply(l, x) ==
    IF l.kind = "dense" THEN ActApply(l.activation, PreActivation(l, x))
    ELSE [i \in 1..Len(x) |-> Coef(l.alpha, i) * x[i] + Coef(l.beta, i)]

\* apply_linearise: the layer afterwards (x captured, activation_prime set)
LayerLinearised(l, x) ==
    IF l.kind = "dense"
    THEN [l EXCEPT !.x = <<x>>,
                   !.activation_prime =
                       IF l.activation = "linear" THEN @
                       ELSE ActPrime(l.activation, PreActivation(l, x))]
    ELSE l

LayerApplyLinearise(l, x) ==
    IF l.kind = "dense" THEN ActApplyLinearise(l.activation, PreActivation(l, x))
    ELSE LayerApply(l, x)

\* apply_tangent_linear_x leaving out the activation's derivative
LayerTangentLinearX_NoPrime(l, dx) ==
    IF l.kind = "dense" THEN Ok(MatVec(l, dx))
    ELSE Ok([i \in 1..Len(dx) |-> Coef(l.alpha, i) * dx[i]])

LayerTangentLinearX(l, dx) ==
    IF l.kind = "dense"
    THEN ActTangentLinear(l.activation, l.activation_prime, MatVec(l, dx))
    ELSE Ok([i \in 1..Len(dx) |-> Coef(l.alpha, i) * dx[i]])

LayerAdjointX(l, dy) ==
    IF l.kind = "dense"
    THEN LET a == ActAdjoint(l.activation, l.activation_prime, dy)
         IN  IF a.status # "ok" THEN a ELSE Ok(MatTVec(l, a.value))
    ELSE Ok([i \in 1..Len(dy) |-> Coef(l.alpha, i) * dy[i]])

\* db = dp[:Nout]; dw = dp[Nout:].reshape((Nout, Nin), order='F');
\* activation.apply_tangent_linear(dw @ self.x) + apply_tangent_linear(db)
LayerTangentLinearP(l, dp) ==
    IF l.kind = "dense"
    THEN IF l.x = Absent THEN Err("AttributeError")
         ELSE LET dl == [l EXCEPT !.parameters = dp]
                  tlw == ActTangentLinear(l.activation, l.activation_prime,
                                          MatVec(dl, l.x[1]))
                  tlb == ActTangentLinear(l.activation, l.activation_prime,
                                          [j \in 1..l.Nout |-> LayerB(dl, j)])
              IN  IF tlw.status # "ok" THEN tlw
                  ELSE IF tlb.status # "ok" THEN tlb
                  ELSE Ok(VAdd(tlw.value, tlb.value))
    ELSE Ok(Zeros(l.Nout))

\* db = activation.apply_adjoint(dy); dw = outer(db, self.x);
\* concatenate([db, dw.flatten(order='F')])
LayerAdjointP(l, dy) ==
    IF l.kind = "dense"
    THEN LET db == ActAdjoint(l.activation, l.activation_prime, dy)
         IN  IF db.status # "ok" THEN db
             ELSE IF l.x = Absent THEN Err("AttributeError")
             ELSE Ok(db.value \o
                     [k \in 1..(l.Nout * l.Nin) |->
                         db.value[((k - 1) % l.Nout) + 1]
                         * l.x[1][((k - 1) \div l.Nout) + 1]])
    ELSE Ok(<<>>)

\* ----------------------------------------------------------------- network
\* construct_layer: a dictionary lookup of the layer name, then the class
construct_layer(name, Nin, Nout, activation, initialisation, seed, alpha, beta) ==
    CASE name = "dense" -> DenseLayer(Nin, Nout, activation, initialisation, seed, <<>>)
      [] name = "normalisation" ->
            [status |-> "ok", layer |-> << NormalisationLayer(Nin, alpha, beta) >>]
      [] OTHER -> [status |-> "KeyError", layer |-> <<>>]

RECURSIVE num_parameters(_)
num_parameters(ls) ==
    IF ls = <<>> THEN 0 ELSE Head(ls).num_parameters + num_parameters(Tail(ls))

\* split_parameters: p[index : index + layer.num_parameters] per layer
RECURSIVE SplitFrom(_, _, _)
SplitFrom(ls, p, index) ==
    IF ls = <<>> THEN <<>>
    ELSE << Slice(p, index, index + Head(ls).num_parameters) >>
         \o SplitFrom(Tail(ls), p, index + Head(ls).num_parameters)

split_parameters(ls, p) == SplitFrom(ls, p, 0)

\* join_parameters: np.concatenate, which refuses an empty list
join_parameters(p_list) ==
    IF p_list = <<>> THEN Err("ValueError") ELSE Ok(Concat(p_list))

\* the parameters property
GetParameters(ls) == join_parameters([k \in 1..Len(ls) |-> ls[k].parameters])

\* layer.parameters[:] = pi: numpy copies a vector of the same length, fills
\* with a vector of length 1, and refuses any other length
AssignInPlace(l, pi) ==
    IF Len(pi) = l.num_parameters
    THEN [status |-> "ok", layer |-> [l EXCEPT !.parameters = pi]]
    ELSE IF Len(pi) = 1
    THEN [status |-> "ok",
          layer |-> [l EXCEPT !.parameters = [i \in 1..l.num_parameters |-> pi[1]]]]
    ELSE [status |-> "ValueError", layer |-> l]

\* the parameters setter: the loop over zip(layers, p_list) stops at the first
\* layer whose assignment raises; the layers before it are already written
RECURSIVE AssignAll(_, _)
AssignAll(ls, p_list) ==
    IF ls = <<>> THEN [status |-> "ok", layers |-> <<>>]
    ELSE LET a == AssignInPlace(Head(ls), Head(p_list))
         IN  IF a.status # "ok" THEN [status |-> a.status, layers |-> ls]
             ELSE LET rest == AssignAll(Tail(ls), Tail(p_list))
                  IN  [status |-> rest.status, layers |-> <<a.layer>> \o rest.layers]

SetParameters(ls, p) == AssignAll(ls, split_parameters(ls, p))

\* SequentialNetwork.initialise: every layer's initialise
NetInitialise(ls, initialisation, seed) ==
    [k \in 1..Len(ls) |->
        IF ls[k].kind = "dense"
        THEN [ls[k] EXCEPT !.parameters =
                 Initialise(ls[k].parameters, initialisation, seed + k - 1, <<>>).value]
        ELSE ls[k]]

RECURSIVE NetApply(_, _)
NetApply(ls, x) ==
    IF ls = <<>> THEN x ELSE NetApply(Tail(ls), LayerApply(Head(ls), x))

\* apply_linearise: the value returned, and the layers afterwards
RECURSIVE NetApplyLinearise(_, _)
NetApplyLinearise(ls, x) ==
    IF ls = <<>> THEN x
    ELSE NetApplyLinearise(Tail(ls), LayerApplyLinearise(Head(ls), x))

RECURSIVE NetLinearised(_, _)
NetLinearised(ls, x) ==
    IF ls = <<>> THEN <<>>
    ELSE << LayerLinearised(Head(ls), x) >>
         \o NetLinearised(Tail(ls), LayerApplyLinearise(Head(ls), x))

RECURSIVE NetTangentLinearX(_, _)
NetTangentLinearX(ls, dx) ==
    IF ls = <<>> THEN Ok(dx)
    ELSE LET r == LayerTangentLinearX(Head(ls), dx)
         IN  IF r.status # "ok" THEN r ELSE NetTangentLinearX(Tail(ls), r.value)

\* for layer in self.layers[::-1]
RECURSIVE NetAdjointX(_, _)
NetAdjointX(ls, dy) ==
    IF ls = <<>> THEN Ok(dy)
    ELSE LET r == LayerAdjointX(ls[Len(ls)], dy)
         IN  IF r.status # "ok" THEN r
             ELSE NetAdjointX(SubSeq(ls, 1, Len(ls) - 1), r.value)

\* the loop of apply_tangent_linear_p without layer.apply_tangent_linear_x(dy):
\* the running perturbation is replaced by each layer's own term
RECURSIVE TangentLinearPFrom_NoUpstream(_, _, _)
TangentLinearPFrom_NoUpstream(ls, dp_list, dy) ==
    IF ls = <<>> THEN Ok(dy)
    ELSE LET tp == LayerTangentLinearP(Head(ls), Head(dp_list))
         IN  IF tp.status # "ok" THEN tp
             ELSE TangentLinearPFrom_NoUpstream(Tail(ls), Tail(dp_list), tp.value)

\* the loop of apply_tangent_linear_p over zip(layers[1:], dp_list[1:])
RECURSIVE TangentLinearPFrom(_, _, _)
TangentLinearPFrom(ls, dp_list, dy) ==
    IF ls = <<>> THEN Ok(dy)
    ELSE LET tx == LayerTangentLinearX(Head(ls), dy)
             tp == LayerTangentLinearP(Head(ls), Head(dp_list))
         IN  IF tx.status # "ok" THEN tx
             ELSE IF tp.status # "ok" THEN tp
             ELSE TangentLinearPFrom(Tail(ls), Tail(dp_list), VAdd(tx.value, tp.value))

NetTangentLinearP(ls, dp) ==
    IF ls = <<>> THEN Err("IndexError")
    ELSE LET dp_list == split_parameters(ls, dp)
             first == LayerTangentLinearP(ls[1], dp_list[1])
         IN  IF first.status # "ok" THEN first
             ELSE TangentLinearPFrom(Tail(ls), Tail(dp_list), first.value)

\* apply_adjoint_p without `dy = layer.apply_adjoint_x(dy)` in its loop: every
\* layer receives the caller's dy, and a layer of another width rejects it
RECURSIVE AdjointPList_NoBackPropagation(_, _)
AdjointPList_NoBackPropagation(ls, dy) ==
    IF ls[Len(ls)].kind = "dense" /\ ls[Len(ls)].Nout # Len(dy) THEN Err("ValueError")
    ELSE IF Len(ls) = 1
    THEN LET r == LayerAdjointP(ls[1], dy)
         IN  IF r.status # "ok" THEN r ELSE Ok(<< r.value >>)
    ELSE LET ap == LayerAdjointP(ls[Len(ls)], dy)
         IN  IF ap.status # "ok" THEN ap
             ELSE LET rest == AdjointPList_NoBackPropagation(SubSeq(ls, 1, Len(ls) - 1), dy)
                  IN  IF rest.status # "ok" THEN rest
                      ELSE Ok(<< ap.value >> \o rest.value)

\* the loop of apply_adjoint_p over layers[::-1][:-1], then layers[0]; the
\* list returned is dp_list as the code builds it (last layer first)
RECURSIVE AdjointPList(_, _)
AdjointPList(ls, dy) ==
    IF Len(ls) = 1
    THEN LET r == LayerAdjointP(ls[1], dy)
         IN  IF r.status # "ok" THEN r ELSE Ok(<< r.value >>)
    ELSE LET ap == LayerAdjointP(ls[Len(ls)], dy)
             ax == LayerAdjointX(ls[Len(ls)], dy)
         IN  IF ap.status # "ok" THEN ap
             ELSE IF ax.status # "ok" THEN ax
             ELSE LET rest == AdjointPList(SubSeq(ls, 1, Len(ls) - 1), ax.value)
                  IN  IF rest.status # "ok" THEN rest
                      ELSE Ok(<< ap.value >> \o rest.value)

\* apply_adjoint_p joining dp_list in the order it was built (no [::-1])
NetAdjointP_Unreversed(ls, dy) ==
    IF ls = <<>> THEN Err("IndexError")
    ELSE LET l == AdjointPList(ls, dy)
         IN  IF l.status # "ok" THEN l ELSE join_parameters(l.value)

\* join_parameters(dp_list[::-1])
NetAdjointP(ls, dy) ==
    IF ls = <<>> THEN Err("IndexError")
    ELSE LET l == AdjointPList(ls, dy)
         IN  IF l.status # "ok" THEN l ELSE join_parameters(Reverse(l.value))

\* apply_tangent_linear(dp, dx) = apply_tangent_linear_p(dp) + apply_tangent_linear_x(dx)
NetTangentLinear(ls, dp, dx) ==
    LET dyp == NetTangentLinearP(ls, dp)
        dyx == NetTangentLinearX(ls, dx)
    IN  IF dyp.status # "ok" THEN dyp
        ELSE IF dyx.status # "ok" THEN dyx
        ELSE Ok(VAdd(dyp.value, dyx.value))

\* apply_adjoint(dy) = (apply_adjoint_p(dy), apply_adjoint_x(dy))
NetAdjoint(ls, dy) ==
    LET dp == NetAdjointP(ls, dy)
        dx == NetAdjointX(ls, dy)
    IN  IF dp.status # "ok" THEN [status |-> dp.status, dp |-> <<>>, dx |-> <<>>]
        ELSE IF dx.status # "ok" THEN [status |-> dx.status, dp |-> <<>>, dx |-> <<>>]
        ELSE [status |-> "ok", dp |-> dp.value, dx |-> dx.value]

\* ------------------------------------------- the writer of src/keras_to_fnn.py
\* A line of the text file: STR_FORMAT of a string, INT_FORMAT of an integer
\* (the text int() reads back), or tab-joined FLOAT_FORMAT fields.
StrLine(t) == [k |-> "str", s |-> t, v |-> <<>>]

IntLine(n) == [k |-> "int", s |-> "", v |-> <<n>>]

\* FLOAT_FORMAT = '{:0.7e}': one digit before the point and 7 after it
SigDigits == 8

RECURSIVE Pow10(_)
Pow10(k) == IF k = 0 THEN 1 ELSE 10 * Pow10(k - 1)

Abs(v) == IF v < 0 THEN -v ELSE v

RECURSIVE NumDigits(_)
NumDigits(v) == IF v < 10 THEN 1 ELSE 1 + NumDigits(v \div 10)

\* the value the text '{:0.7e}'.format(v) denotes: v rounded to SigDigits
\* significant digits, ties to even
FLOAT_FORMAT(v) ==
    IF NumDigits(Abs(v)) <= SigDigits THEN v
    ELSE LET m == Pow10(NumDigits(Abs(v)) - SigDigits)
             q == Abs(v) \div m
             r == Abs(v) % m
             up == 2 * r > m \/ (2 * r = m /\ q % 2 = 1)
             a == (IF up THEN q + 1 ELSE q) * m
         IN  IF v < 0 THEN -a ELSE a

FloatLine(vs) == [k |-> "floats", s |-> "", v |-> [i \in 1..Len(vs) |-> FLOAT_FORMAT(vs[i])]]

Written(status, lines) == [status |-> status, lines |-> lines]

\* a keras model's name holds 'sequential' or not
IsSequentialName(name) == name \in {"sequential", "sequential_1"}

\* `key in kwargs and kwargs[key]` for an optional boolean (<<>>: absent)
Flag(opt) == opt # <<>> /\ opt[1]

NoRates == [t |-> "none", v |-> 0, l |-> <<>>]

IntRate(r) == [t |-> "int", v |-> r, l |-> <<>>]

FloatRate(r) == [t |-> "float", v |-> r, l |-> <<>>]

ListRates(l) == [t |-> "list", v |-> 0, l |-> l]

\* get_dropout_rates: one optional rate per layer (<<>> is None)
get_dropout_rates(model, kwargs) ==
    LET num_layers == Len(model.layers)
        rates == kwargs.dropout_rates
    IN  CASE rates.t = "int" -> Ok([k \in 1..num_layers |-> <<rates.v>>])
          [] rates.t = "list" ->
                IF Len(rates.l) > num_layers THEN Err("ValueError")
                ELSE Ok([k \in 1..num_layers |->
                            IF k <= Len(rates.l) THEN rates.l[k] ELSE <<>>])
          [] OTHER -> Ok([k \in 1..num_layers |-> <<>>])

\* get_num_layers
RECURSIVE CountLayers(_, _, _)
CountLayers(ls, rates, kwargs) ==
    IF ls = <<>> THEN 0
    ELSE (CASE Head(ls).class_name = "Dense" -> IF Head(rates) # <<>> THEN 2 ELSE 1
            [] Head(ls).class_name = "Dropout" ->
                  IF ~Flag(kwargs.ignore_dropout) THEN 1 ELSE 0
            [] OTHER -> 0)
         + CountLayers(Tail(ls), Tail(rates), kwargs)

get_num_layers(model, rates, kwargs) ==
    CountLayers(model.layers, rates, kwargs)
    + (IF Flag(kwargs.add_norm_in) THEN 1 ELSE 0)
    + (IF Flag(kwargs.add_norm_out) THEN 1 ELSE 0)

\* kwargs.get(f'norm_alpha_{lbl}', 1), kwargs.get(f'norm_beta_{lbl}', 0)
CoefOrDefault(opt, default) == IF opt = <<>> THEN Scalar(default) ELSE opt[1]

\* add_normalisation_layer: each write lands in the file before the next
\* expression is evaluated; iterating a scalar alpha or beta is a TypeError
add_normalisation_layer(lines, width, for_input, kwargs) ==
    LET add == IF for_input THEN kwargs.add_norm_in ELSE kwargs.add_norm_out
        alpha == CoefOrDefault(IF for_input THEN kwargs.norm_alpha_in
                                            ELSE kwargs.norm_alpha_out, 1)
        beta == CoefOrDefault(IF for_input THEN kwargs.norm_beta_in
                                           ELSE kwargs.norm_beta_out, 0)
        l2 == lines \o <<StrLine("normalisation"), IntLine(width)>>
    IN  IF ~Flag(add) THEN Written("ok", lines)
        ELSE IF alpha.scalar THEN Written("TypeError", l2)
        ELSE IF beta.scalar THEN Written("TypeError", l2 \o <<FloatLine(alpha.v)>>)
        ELSE Written("ok", l2 \o <<FloatLine(alpha.v), FloatLine(beta.v)>>)

\* an add_layer whose caller would keep the input width after a Dense layer
add_layer_SameWidth(lines, width, layer, dropout_rate, kwargs) ==
    CASE layer.class_name = "Dense" ->
            LET dense == lines \o <<StrLine("dense"), IntLine(width), IntLine(layer.units),
                                    FloatLine(layer.bias \o layer.kernel),
                                    StrLine(layer.activation)>>
            IN  [status |-> "ok", width |-> width,
                 lines |-> IF dropout_rate # <<>>
                           THEN dense \o <<StrLine("dropout"), IntLine(layer.units),
                                           FloatLine(dropout_rate)>>
                           ELSE dense]
      [] layer.class_name = "Dropout" ->
            [status |-> "ok", width |-> width,
             lines |-> IF ~Flag(kwargs.ignore_dropout)
                       THEN lines \o <<StrLine("dropout"), IntLine(width),
                                       FloatLine(<<layer.rate>>)>>
                       ELSE lines]
      [] OTHER -> [status |-> "UnsupportedLayerException", width |-> width, lines |-> lines]

\* add_layer: the lines after it, the output width, or the exception
add_layer(lines, width, layer, dropout_rate, kwargs) ==
    CASE layer.class_name = "Dense" ->
            LET dense == lines \o <<StrLine("dense"), IntLine(width), IntLine(layer.units),
                                    FloatLine(layer.bias \o layer.kernel),
                                    StrLine(layer.activation)>>
            IN  [status |-> "ok", width |-> layer.units,
                 lines |-> IF dropout_rate # <<>>
                           THEN dense \o <<StrLine("dropout"), IntLine(layer.units),
                                           FloatLine(dropout_rate)>>
                           ELSE dense]
      [] layer.class_name = "Dropout" ->
            [status |-> "ok", width |-> width,
             lines |-> IF ~Flag(kwargs.ignore_dropout)
                       THEN lines \o <<StrLine("dropout"), IntLine(width),
                                       FloatLine(<<layer.rate>>)>>
                       ELSE lines]
      [] OTHER -> [status |-> "UnsupportedLayerException", width |-> width, lines |-> lines]

\* the loop of keras_to_txt over the layers, stopped by an exception
RECURSIVE AddLayers(_, _, _, _, _)
AddLayers(lines, width, ls, rates, kwargs) ==
    IF ls = <<>> THEN [status |-> "ok", width |-> width, lines |-> lines]
    ELSE LET a == add_layer(lines, width, Head(ls), Head(rates), kwargs)
         IN  IF a.status # "ok" THEN a
             ELSE AddLayers(a.lines, a.width, Tail(ls), Tail(rates), kwargs)

\* keras_to_txt(filename_out, model, **kwargs): the exception raised, if any,
\* and the content of the file, which open(filename_out, 'w') has emptied
keras_to_txt(model, kwargs) ==
    IF ~IsSequentialName(model.name) THEN Written("UnsupportedModelException", <<>>)
    ELSE LET rates == get_dropout_rates(model, kwargs)
         IN  IF rates.status # "ok" THEN Written(rates.status, <<>>)
             ELSE LET num_layers == get_num_layers(model, rates.value, kwargs)
                      head == <<StrLine("sequential"), IntLine(num_layers)>>
                      nin == add_normalisation_layer(head, model.Nx, TRUE, kwargs)
                  IN  IF nin.status # "ok" THEN nin
                      ELSE LET body == AddLayers(nin.lines, model.Nx, model.layers,
                                                 rates.value, kwargs)
                           IN  IF body.status # "ok" THEN Written(body.status, body.lines)
                               ELSE add_normalisation_layer(body.lines, body.width,
                                                            FALSE, kwargs)

\* ------------------------------------------ the writer of toolbox/keras_to_txt.py
\* float_format.format(norm_alpha): a scalar is formatted, an array is a
\* TypeError; the default of an absent alpha or beta is a scalar
ToolboxCoefLine(opt, default) ==
    LET c == CoefOrDefault(opt, default)
    IN  IF c.scalar THEN Ok(<<FloatLine(c.v)>>) ELSE Err("TypeError")

\* the four lines of a normalisation record, when add_norm is true
ToolboxNormalisation(add, width, alpha, beta) ==
    LET a == ToolboxCoefLine(alpha, 1)
        b == ToolboxCoefLine(beta, 0)
    IN  IF ~Flag(add) THEN Ok(<<>>)
        ELSE IF a.status # "ok" THEN a
        ELSE IF b.status # "ok" THEN b
        ELSE Ok(<<StrLine("normalisation"), IntLine(width)>> \o a.value \o b.value)

\* the loop over model.layers: the lines of the dense records, or the
\* Exception raised for a layer that is not Dense
RECURSIVE ToolboxLayers(_, _)
ToolboxLayers(ls, width) ==
    IF ls = <<>> THEN [status |-> "ok", value |-> <<>>, width |-> width]
    ELSE IF Head(ls).class_name # "Dense"
         THEN [status |-> "Exception", value |-> <<>>, width |-> width]
    ELSE LET rest == ToolboxLayers(Tail(ls), Head(ls).units)
         IN  IF rest.status # "ok" THEN rest
             ELSE [status |-> "ok", width |-> rest.width,
                   value |-> <<StrLine("dense"), IntLine(width), IntLine(Head(ls).units),
                               FloatLine(Head(ls).bias \o Head(ls).kernel),
                               StrLine(Head(ls).activation)>> \o rest.value]

\* keras_to_txt of the toolbox: the lines are collected first and the file
\* is written last, so an exception leaves no file
toolbox_keras_to_txt(model, kwargs) ==
    IF ~IsSequentialName(model.name) THEN Written("Exception", <<>>)
    ELSE LET num_layers == Len(model.layers)
                           + (IF Flag(kwargs.add_norm_in) THEN 1 ELSE 0)
                           + (IF Flag(kwargs.add_norm_out) THEN 1 ELSE 0)
             nin == ToolboxNormalisation(kwargs.add_norm_in, model.Nx,
                                         kwargs.norm_alpha_in, kwargs.norm_beta_in)
             body == ToolboxLayers(model.layers, model.Nx)
             nout == ToolboxNormalisation(kwargs.add_norm_out, body.width,
                                          kwargs.norm_alpha_out, kwargs.norm_beta_out)
         IN  IF nin.status # "ok" THEN Written(nin.status, <<>>)
             ELSE IF body.status # "ok" THEN Written(body.status, <<>>)
             ELSE IF nout.status # "ok" THEN Written(nout.status, <<>>)
             ELSE Written("ok", <<StrLine("sequential"), IntLine(num_layers)>>
                                \o nin.value \o body.value \o nout.value)

\* ------------------------------------------------ the reader of test/pyfnn.py
\* an entry None of network.layers
NoneLayer ==
    [kind |-> "None", Nin |-> 0, Nout |-> 0, num_parameters |-> 0, parameters |-> <<>>,
     activation |-> "none", activation_prime |-> Absent, x |-> Absent,
     alpha |-> NoCoef, beta |-> NoCoef]

\* f.readline().strip(): the string of the line, '' at the end of the file,
\* and the text of a number, which is no name
Strip(doc, pos) ==
    IF pos > Len(doc) THEN ""
    ELSE IF doc[pos].k = "str" THEN doc[pos].s
    ELSE "number"

\* int(f.readline().strip())
ParseInt(doc, pos) ==
    IF pos <= Len(doc) /\ doc[pos].k = "int" THEN Ok(doc[pos].v) ELSE Err("ValueError")

\* np.loadtxt(f, max_rows=1): a single field is squeezed to a 0-d array, and
\* the end of the file gives an empty array
LoadTxt(doc, pos) ==
    IF pos > Len(doc) THEN Ok(PerElement(<<>>))
    ELSE IF doc[pos].k = "str" THEN Err("ValueError")
    ELSE IF Len(doc[pos].v) = 1 THEN Ok(Scalar(doc[pos].v[1]))
    ELSE Ok(PerElement(doc[pos].v))

Parsed(status, layer, pos) == [status |-> status, layer |-> layer, pos |-> pos]

\* layer_fromfile(f) with f at line pos: the layer (None for a name that is
\* neither 'dense' nor 'normalisation'), the next line, or the error raised
layer_fromfile(doc, pos) ==
    LET layer_name == Strip(doc, pos)
    IN  CASE layer_name = "dense" ->
                LET Nin == ParseInt(doc, pos + 1)
                    Nout == ParseInt(doc, pos + 2)
                    p == LoadTxt(doc, pos + 3)
                    activation == Strip(doc, pos + 4)
                IN  IF Nin.status # "ok" THEN Parsed(Nin.status, NoneLayer, pos + 2)
                    ELSE IF Nout.status # "ok" THEN Parsed(Nout.status, NoneLayer, pos + 3)
                    ELSE IF p.status # "ok" THEN Parsed(p.status, NoneLayer, pos + 4)
                    ELSE LET d == DenseLayer(Nin.value[1], Nout.value[1], activation,
                                             "value", 0, p.value.v)
                         IN  IF d.status # "ok" THEN Parsed(d.status, NoneLayer, pos + 5)
                             ELSE Parsed("ok", d.layer[1], pos + 5)
          [] layer_name = "normalisation" ->
                LET Ninout == ParseInt(doc, pos + 1)
                    alpha == LoadTxt(doc, pos + 2)
                    beta == LoadTxt(doc, pos + 3)
                IN  IF Ninout.status # "ok" THEN Parsed(Ninout.status, NoneLayer, pos + 2)
                    ELSE IF alpha.status # "ok" THEN Parsed(alpha.status, NoneLayer, pos + 3)
                    ELSE IF beta.status # "ok" THEN Parsed(beta.status, NoneLayer, pos + 4)
                    ELSE Parsed("ok", NormalisationLayer(Ninout.value[1], alpha.value,
                                                         beta.value), pos + 4)
          [] OTHER -> Parsed("ok", NoneLayer, pos + 1)

\* the loop of fromfile: network.layers.append(layer_fromfile(f)), n times
RECURSIVE ReadLayers(_, _, _, _)
ReadLayers(doc, pos, n, ls) ==
    IF n <= 0 THEN Ok(<<ls>>)
    ELSE LET l == layer_fromfile(doc, pos)
         IN  IF l.status # "ok" THEN Err(l.status)
             ELSE ReadLayers(doc, l.pos, n - 1, Append(ls, l.layer))

\* fromfile(filename): <<network.layers>>, <<>> for the None returned when the
\* first line is not 'sequential', or the error raised
fromfile(doc) ==
    IF Strip(doc, 1) = "sequential"
    THEN LET num_layers == ParseInt(doc, 2)
         IN  IF num_layers.status # "ok" THEN Err(num_layers.status)
             ELSE ReadLayers(doc, 3, num_layers.value[1], <<>>)
    ELSE Ok(<<>>)

\* ------------------------------------------------------------ state machine
NoArg == <<>>

Call(op, status, value, arg, arg2) ==
    [op |-> op, status |-> status, value |-> value, arg |-> arg, arg2 |-> arg2]

NeverLinearised == [lin |-> "never", x |-> Absent, y |-> Absent]

\* no conversion has run: the output file does not exist
NoModel == [name |-> "", Nx |-> 0, layers |-> <<>>]

NoKwargs ==
    [dropout_rates |-> NoRates, ignore_dropout |-> <<>>,
     add_norm_in |-> <<>>, norm_alpha_in |-> <<>>, norm_beta_in |-> <<>>,
     add_norm_out |-> <<>>, norm_alpha_out |-> <<>>, norm_beta_out |-> <<>>]

NotConverted == [status |-> "none", model |-> NoModel, kwargs |-> NoKwargs]

\* The apply_linearise calls in progress on the network, one per thread: the
\* input x0, the layer k the loop runs next and the running value x.
Threads == 1..2

NoCalls == [t \in Threads |-> [state |-> "idle", k |-> 0, x0 |-> <<>>, x |-> <<>>]]

\* A second network of the same process and numpy's process-wide generator:
\* `layers` is the second network, `rng` the number of vectors np.random.randn
\* has returned, and `alone`, `aloneRng`, `aloneRes` are the first network,
\* the generator and the last result in the run of the first network's calls
\* by themselves.
NoTwin ==
    [layers |-> <<>>, rng |-> 0,
     alone |-> <<>>, aloneRng |-> 0, aloneRes |-> Call("init", "ok", <<>>, NoArg, NoArg)]

Init ==
    /\ layers = <<>>
    /\ res = Call("init", "ok", <<>>, NoArg, NoArg)
    /\ hist = NeverLinearised
    /\ file = <<>>
    /\ wres = NotConverted
    /\ twin = NoTwin
    /\ calls = NoCalls

\* the width the next layer must take, and the widths of the network's ends
NextWidths(ls) == IF ls = <<>> THEN Widths ELSE {ls[Len(ls)].Nout}

InWidths == IF layers = <<>> THEN Widths ELSE {layers[1].Nin}

OutWidths == IF layers = <<>> THEN Widths ELSE {layers[Len(layers)].Nout}

\* the vectors of length n a caller passes: in the life-cycle specification
\* the drawn vectors, in the algebraic one the unit vectors too
Seeds == 1..NumSeeds

AlgSeeds == 1..NumAlgSeeds

CallVecs(n) == {Vec(s, n) : s \in Seeds}

AlgVecs(n) == {Vec(s, n) : s \in AlgSeeds} \cup {Unit(k, n) : k \in 1..n}

InputVecs(alg, n) == IF alg THEN AlgVecs(n) ELSE CallVecs(n)

\* the (alpha, beta) of a normalisation layer of width n: scalars or vectors
Coefs(n) == {<<Scalar(2), Scalar(-1)>>, <<PerElement(Vec(1, n)), PerElement(Vec(2, n))>>}

LayerNames == {"dense", "normalisation", "dropout"}

Stale(h, why) == IF h.lin = "never" THEN h ELSE [h EXCEPT !.lin = why]

\* network.add_layer(name, ...): appends the constructed layer, or raises
AddLayer ==
    /\ Len(layers) < MaxLayers
    /\ \E name \in LayerNames, Nin \in NextWidths(layers), Nout \in Widths,
          activation \in ActivationNames \cup {"sigmoid"},
          initialisation \in {"randn"}, seed \in Seeds :
          \E c \in Coefs(Nin) :
          LET made == construct_layer(name, Nin, Nout, activation, initialisation, seed,
                                      c[1], c[2])
          IN  /\ layers' = IF made.status = "ok" THEN layers \o made.layer ELSE layers
              /\ res' = Call("add_layer", made.status, <<>>, <<name, activation>>, NoArg)
              /\ hist' = IF made.status = "ok" THEN Stale(hist, "extended") ELSE hist
    /\ UNCHANGED <<file, wres, twin, calls>>

\* network.initialise('zero' | 'randn')
InitialiseNet ==
    /\ \E initialisation \in {"zero", "randn"}, seed \in Seeds :
          /\ layers' = NetInitialise(layers, initialisation, seed)
          /\ res' = Call("initialise", "ok", <<>>, NoArg, NoArg)
          /\ hist' = IF layers' # layers THEN Stale(hist, "mutated") ELSE hist
    /\ UNCHANGED <<file, wres, twin, calls>>

\* network.parameters = p, for p of the right length, one shorter, one longer
SetParametersCall ==
    /\ \E seed \in Seeds, d \in {-1, 0, 1} :
          LET n == num_parameters(layers) + d
          IN  /\ n >= 0
              /\ LET p == Vec(seed + 1, n)
                     r == SetParameters(layers, p)
                 IN  /\ layers' = r.layers
                     /\ res' = Call("set_parameters", r.status, <<>>, p, NoArg)
                     /\ hist' = IF r.layers # layers THEN Stale(hist, "mutated") ELSE hist
    /\ UNCHANGED <<file, wres, twin, calls>>

\* reading network.parameters
GetParametersCall ==
    /\ LET r == GetParameters(layers)
       IN  res' = Call("get_parameters", r.status, r.value, NoArg, NoArg)
    /\ UNCHANGED <<layers, hist>>
    /\ UNCHANGED <<file, wres, twin, calls>>

\* layer.parameters[:] = p on one layer of the network (an in-place update)
UpdateInPlace ==
    /\ \E k \in 1..Len(layers), seed \in Seeds :
          /\ layers[k].kind = "dense"
          /\ LET a == AssignInPlace(layers[k], Vec(seed + 2, layers[k].num_parameters))
             IN  /\ layers' = [layers EXCEPT ![k] = a.layer]
                 /\ res' = Call("update_in_place", a.status, <<>>, NoArg, NoArg)
                 /\ hist' = IF layers' # layers THEN Stale(hist, "mutated") ELSE hist
    /\ UNCHANGED <<file, wres, twin, calls>>

\* an apply that would capture its input and derivative as apply_linearise does
ApplyCall_Capturing(alg) ==
    /\ \E n \in InWidths : \E x \in InputVecs(alg, n) :
          /\ res' = Call("apply", "ok", NetApply(layers, x), x, NoArg)
          /\ layers' = NetLinearised(layers, x)
    /\ UNCHANGED <<hist, file, wres, twin, calls>>

ApplyCall(alg) ==
    /\ \E n \in InWidths : \E x \in InputVecs(alg, n) :
          res' = Call("apply", "ok", NetApply(layers, x), x, NoArg)
    /\ UNCHANGED <<layers, hist>>
    /\ UNCHANGED <<file, wres, twin, calls>>

ApplyLineariseCall(alg) ==
    /\ \E n \in InWidths : \E x \in InputVecs(alg, n) :
          LET y == NetApplyLinearise(layers, x)
          IN  /\ layers' = NetLinearised(layers, x)
              /\ res' = Call("apply_linearise", "ok", y, x, NoArg)
              /\ hist' = [lin |-> "current", x |-> <<x>>, y |-> <<y>>]
    /\ UNCHANGED <<file, wres, twin, calls>>

TangentLinearXCall(alg) ==
    /\ \E n \in InWidths : \E dx \in InputVecs(alg, n) :
          LET r == NetTangentLinearX(layers, dx)
          IN  res' = Call("apply_tangent_linear_x", r.status, r.value, dx, NoArg)
    /\ UNCHANGED <<layers, hist>>
    /\ UNCHANGED <<file, wres, twin, calls>>

AdjointXCall(alg) ==
    /\ \E n \in OutWidths : \E dy \in InputVecs(alg, n) :
          LET r == NetAdjointX(layers, dy)
          IN  res' = Call("apply_adjoint_x", r.status, r.value, dy, NoArg)
    /\ UNCHANGED <<layers, hist>>
    /\ UNCHANGED <<file, wres, twin, calls>>

TangentLinearPCall(alg) ==
    /\ \E dp \in InputVecs(alg, num_parameters(layers)) :
          LET r == NetTangentLinearP(layers, dp)
          IN  res' = Call("apply_tangent_linear_p", r.status, r.value, dp, NoArg)
    /\ UNCHANGED <<layers, hist>>
    /\ UNCHANGED <<file, wres, twin, calls>>

AdjointPCall(alg) ==
    /\ \E n \in OutWidths : \E dy \in InputVecs(alg, n) :
          LET r == NetAdjointP(layers, dy)
          IN  res' = Call("apply_adjoint_p", r.status, r.value, dy, NoArg)
    /\ UNCHANGED <<layers, hist>>
    /\ UNCHANGED <<file, wres, twin, calls>>

\* the (dp, dx) pairs a caller passes to apply_tangent_linear: one of them
\* zero, or both drawn
TangentPairs(alg, np, nx) ==
    {<<dp, Zeros(nx)>> : dp \in InputVecs(alg, np)}
    \cup {<<Zeros(np), dx>> : dx \in InputVecs(alg, nx)}
    \cup {<<Vec(1, np), Vec(2, nx)>>}

TangentLinearCall(alg) ==
    /\ \E n \in InWidths : \E d \in TangentPairs(alg, num_parameters(layers), n) :
          LET r == NetTangentLinear(layers, d[1], d[2])
          IN  res' = Call("apply_tangent_linear", r.status, r.value, d[1], d[2])
    /\ UNCHANGED <<layers, hist>>
    /\ UNCHANGED <<file, wres, twin, calls>>

\* apply_adjoint returns the pair (dp, dx): value holds dp, arg2 holds dx
AdjointCall(alg) ==
    /\ \E n \in OutWidths : \E dy \in InputVecs(alg, n) :
          LET r == NetAdjoint(layers, dy)
          IN  res' = Call("apply_adjoint", r.status, r.dp, dy, r.dx)
    /\ UNCHANGED <<layers, hist>>
    /\ UNCHANGED <<file, wres, twin, calls>>

\* ------------------------------------------------- the conversion to a file
\* A keras layer as the writer sees it: get_config()'s class_name, activation
\* and rate, and weights[0].numpy().flatten() (kernel[i, j] at i*units + j)
\* and weights[1].numpy() (bias) of a Dense layer.
KerasDense(Nin, units, activation, offset) ==
    [class_name |-> "Dense", units |-> units, activation |-> activation,
     kernel |-> [i \in 1..(Nin * units) |-> Gen(1, i) + offset],
     bias |-> [j \in 1..units |-> Gen(2, j) + offset], rate |-> 0]

KerasDropout(rate) ==
    [class_name |-> "Dropout", units |-> 0, activation |-> "", kernel |-> <<>>,
     bias |-> <<>>, rate |-> rate]

KerasOther ==
    [class_name |-> "Conv1D", units |-> 0, activation |-> "", kernel |-> <<>>,
     bias |-> <<>>, rate |-> 0]

\* the activations and weight offsets of the Dense layers converted
DenseKinds == {<<"linear", 0>>, <<"tanh", 0>>, <<"relu", LongMantissa>>, <<"sigmoid", 0>>}

KerasLayers(Nin) ==
    {KerasDense(Nin, units, k[1], k[2]) : units \in Widths, k \in DenseKinds}
    \cup {KerasDropout(2), KerasOther}

\* layer.compute_output_shape(input_shape)[1]
OutputWidth(layer, width) == IF layer.class_name = "Dense" THEN layer.units ELSE width

RECURSIVE FinalWidth(_, _)
FinalWidth(ls, width) ==
    IF ls = <<>> THEN width ELSE FinalWidth(Tail(ls), OutputWidth(Head(ls), width))

RECURSIVE KerasStacks(_, _)
KerasStacks(width, depth) ==
    IF depth = 0 THEN {<<>>}
    ELSE {<<>>} \cup UNION {{<<l>> \o rest : rest \in KerasStacks(OutputWidth(l, width),
                                                                  depth - 1)} :
                            l \in KerasLayers(width)}

KerasModels ==
    UNION {{[name |-> name, Nx |-> w, layers |-> ls] :
                name \in {"sequential_1", "model"},
                ls \in KerasStacks(w, MaxKerasLayers)} : w \in Widths}

\* the dropout_rates a caller passes: none, an int, a float, lists of
\* optional rates up to one longer than the model
DropoutRateArgs ==
    {NoRates, IntRate(1), FloatRate(2), ListRates(<< <<3>> >>),
     ListRates(<< <<>>, <<3>> >>),
     ListRates([k \in 1..(MaxKerasLayers + 1) |-> <<3>>])}

\* (add_norm, norm_alpha, norm_beta) for a width n: each absent or given
InNorms(n) ==
    {<< <<>>, <<>>, <<>> >>,
     << <<TRUE>>, <<PerElement(Vec(1, n))>>, <<PerElement(Vec(2, n))>> >>,
     << <<TRUE>>, <<Scalar(2)>>, <<Scalar(-1)>> >>,
     << <<TRUE>>, <<>>, <<>> >>}

OutNorms(n) ==
    {<< <<>>, <<>>, <<>> >>,
     << <<TRUE>>, <<PerElement(Vec(2, n))>>, <<PerElement(Vec(1, n))>> >>,
     << <<FALSE>>, <<PerElement(Vec(2, n))>>, <<PerElement(Vec(1, n))>> >>,
     << <<TRUE>>, <<PerElement(Vec(2, n))>>, <<>> >>}

KwargsFor(model) ==
    {[dropout_rates |-> d, ignore_dropout |-> g,
      add_norm_in |-> i[1], norm_alpha_in |-> i[2], norm_beta_in |-> i[3],
      add_norm_out |-> o[1], norm_alpha_out |-> o[2], norm_beta_out |-> o[3]] :
        d \in DropoutRateArgs, g \in {<<>>, <<TRUE>>, <<FALSE>>},
        i \in InNorms(model.Nx), o \in OutNorms(FinalWidth(model.layers, model.Nx))}

\* keras_to_txt(filename_out, model, **kwargs), once in a run
KerasToTxt ==
    /\ wres.status = "none"
    /\ \E model \in KerasModels : \E kwargs \in KwargsFor(model) :
          LET w == keras_to_txt(model, kwargs)
          IN  /\ file' = w.lines
              /\ wres' = [status |-> w.status, model |-> model, kwargs |-> kwargs]
    /\ UNCHANGED <<layers, res, hist, twin, calls>>

\* network = fromfile(filename) on a file of content doc, r being
\* fromfile(doc): the network returned replaces the caller's (value holds its
\* number of layers, nothing for None, arg the content read); an exception
\* leaves the caller's network as it was
FromFileCall(doc, r) ==
    /\ layers' = IF r.status # "ok" THEN layers
                 ELSE IF r.value = <<>> THEN <<>> ELSE r.value[1]
    /\ res' = Call("fromfile", r.status,
                   IF r.status = "ok" /\ r.value # <<>> THEN <<Len(r.value[1])>> ELSE <<>>,
                   doc, NoArg)
    /\ hist' = IF r.status = "ok" THEN NeverLinearised ELSE hist
    /\ UNCHANGED <<file, wres, twin, calls>>

\* open(filename, 'r') finds a file: a conversion of src/keras_to_fnn.py
\* creates it even when it fails, one of the toolbox only when it succeeds
FileExists ==
    wres.status # "none" /\ ~(file = <<>> /\ wres.status \in {"Exception", "TypeError"})

\* reading the file the conversion wrote
FromFile ==
    /\ wres.status # "none"
    /\ res.op # "fromfile"
    /\ FromFileCall(file, IF FileExists THEN fromfile(file) ELSE Err("FileNotFoundError"))

NextCodec ==
    \/ KerasToTxt
    \/ FromFile

SpecCodec == Init /\ [][NextCodec]_vars

\* ------------------------------------------------ files from other writers
\* (add_norm, norm_alpha, norm_beta) as the toolbox takes them for a width n:
\* defaults, scalars, or arrays
ToolboxNorms(n) ==
    {<< <<>>, <<>>, <<>> >>,
     << <<TRUE>>, <<>>, <<>> >>,
     << <<TRUE>>, <<Scalar(2)>>, <<Scalar(-1)>> >>,
     << <<TRUE>>, <<PerElement(Vec(1, n))>>, <<PerElement(Vec(2, n))>> >>}

ToolboxKwargsFor(model) ==
    {[NoKwargs EXCEPT !.add_norm_in = i[1], !.norm_alpha_in = i[2], !.norm_beta_in = i[3],
                      !.add_norm_out = o[1], !.norm_alpha_out = o[2],
                      !.norm_beta_out = o[3]] :
        i \in ToolboxNorms(model.Nx),
        o \in ToolboxNorms(FinalWidth(model.layers, model.Nx))}

\* keras_to_txt of the toolbox, once in a run
ToolboxKerasToTxt ==
    /\ wres.status = "none"
    /\ \E model \in KerasModels : \E kwargs \in ToolboxKwargsFor(model) :
          LET w == toolbox_keras_to_txt(model, kwargs)
          IN  /\ file' = IF w.status = "ok" THEN w.lines ELSE file
              /\ wres' = [status |-> w.status, model |-> model, kwargs |-> kwargs]
    /\ UNCHANGED <<layers, res, hist, twin, calls>>

\* a dense record of one input and one output
DenseRecord(values) ==
    <<StrLine("dense"), IntLine(1), IntLine(1), FloatLine(values), StrLine("linear")>>

Header(name, n) == <<StrLine(name), IntLine(n)>>

\* the files fromfile is given that no writer of the repository wrote: a
\* well-formed one, one of another root kind, one with a record of a kind
\* the reader does not know, one that ends before its N records, one cut
\* inside a record, and two whose parameter block has not Nout*(Nin+1) values
HandDocs ==
    {Header("sequential", 1) \o DenseRecord(<<2, -1>>),
     Header("functional", 1) \o DenseRecord(<<2, -1>>),
     Header("sequential", 2) \o <<StrLine("conv")>> \o DenseRecord(<<2, -1>>),
     Header("sequential", 2) \o DenseRecord(<<2, -1>>),
     Header("sequential", 1) \o <<StrLine("dense"), IntLine(1), IntLine(1)>>,
     Header("sequential", 1) \o DenseRecord(<<2>>),
     Header("sequential", 1) \o DenseRecord(<<2, -1, 3>>)}

\* a file put in place by hand, once in a run
PutFile ==
    /\ wres.status = "none"
    /\ \E doc \in HandDocs :
          /\ file' = doc
          /\ wres' = [NotConverted EXCEPT !.status = "put"]
    /\ UNCHANGED <<layers, res, hist, twin, calls>>

NextFiles ==
    \/ KerasToTxt
    \/ ToolboxKerasToTxt
    \/ PutFile
    \/ FromFile

SpecFiles == Init /\ [][NextFiles]_vars

\* ------------------------------------------------- two networks, one process
MaxTwinLayers == 1
MaxDraws == 3

\* The calls made on a network ls: add_layer('dense', 1, 1, activation) with
\* the default initialisation 'randn', initialise, the parameter setter and the
\* evaluations, their vectors numbered by seed.
TwinOps(ls) ==
    (IF Len(ls) < MaxTwinLayers
     THEN {[name |-> "add_layer", init |-> "randn", activation |-> a, seed |-> 0] :
              a \in {"linear", "relu"}}
     ELSE {})
    \cup {[name |-> "initialise", init |-> i, activation |-> "", seed |-> 0] :
              i \in {"zero", "randn"}}
    \cup {[name |-> n, init |-> "", activation |-> "", seed |-> s] :
              n \in {"set_parameters", "apply", "apply_linearise",
                     "apply_tangent_linear_p", "apply_adjoint_p"},
              s \in Seeds}

\* the vectors a call takes from np.random.randn: one per dense layer
Draws(ls, op) ==
    IF op.init # "randn" THEN 0
    ELSE IF op.name = "add_layer" THEN 1
    ELSE Cardinality({k \in 1..Len(ls) : ls[k].kind = "dense"})

\* the call op on the network ls with the generator at g: the layers and the
\* generator afterwards, and what the call returned
OpOn(ls, g, op) ==
    LET nin == IF ls = <<>> THEN 1 ELSE ls[1].Nin
        nout == IF ls = <<>> THEN 1 ELSE ls[Len(ls)].Nout
        x == Vec(op.seed, nin)
        dy == Vec(op.seed, nout)
        p == Vec(op.seed + 1, num_parameters(ls))
        made == construct_layer("dense", nout, 1, op.activation, op.init, g + 1, NoCoef, NoCoef)
        set == SetParameters(ls, p)
        tl == NetTangentLinearP(ls, p)
        adj == NetAdjointP(ls, dy)
        after ==
            CASE op.name = "add_layer" -> ls \o made.layer
              [] op.name = "initialise" -> NetInitialise(ls, op.init, g + 1)
              [] op.name = "set_parameters" -> set.layers
              [] op.name = "apply_linearise" -> NetLinearised(ls, x)
              [] OTHER -> ls
        result ==
            CASE op.name = "add_layer" ->
                    Call("add_layer", made.status, <<>>, <<"dense", op.activation>>, NoArg)
              [] op.name = "initialise" -> Call("initialise", "ok", <<>>, NoArg, NoArg)
              [] op.name = "set_parameters" -> Call("set_parameters", set.status, <<>>, p, NoArg)
              [] op.name = "apply" -> Call("apply", "ok", NetApply(ls, x), x, NoArg)
              [] op.name = "apply_linearise" ->
                    Call("apply_linearise", "ok", NetApplyLinearise(ls, x), x, NoArg)
              [] op.name = "apply_tangent_linear_p" ->
                    Call("apply_tangent_linear_p", tl.status, tl.value, p, NoArg)
              [] op.name = "apply_adjoint_p" ->
                    Call("apply_adjoint_p", adj.status, adj.value, dy, NoArg)
    IN  [layers |-> after, rng |-> g + Draws(ls, op), res |-> result]

\* a call on the first network, in this process and in the run by itself
TwinOpA(name) ==
    /\ \E op \in TwinOps(layers) :
          /\ op.name = name
          /\ twin.rng + Draws(layers, op) <= MaxDraws
          /\ LET a == OpOn(layers, twin.rng, op)
                 s == OpOn(twin.alone, twin.aloneRng, op)
             IN  /\ layers' = a.layers
                 /\ res' = a.res
                 /\ hist' = IF name = "apply_linearise"
                            THEN [lin |-> "current", x |-> <<a.res.arg>>, y |-> <<a.res.value>>]
                            ELSE IF a.layers = layers THEN hist
                            ELSE Stale(hist, IF name = "add_layer" THEN "extended"
                                             ELSE "mutated")
                 /\ twin' = [twin EXCEPT !.rng = a.rng, !.alone = s.layers,
                                         !.aloneRng = s.rng, !.aloneRes = s.res]
    /\ UNCHANGED <<file, wres, calls>>

\* a call on the second network
TwinOpB(name) ==
    /\ \E op \in TwinOps(twin.layers) :
          /\ op.name = name
          /\ twin.rng + Draws(twin.layers, op) <= MaxDraws
          /\ LET b == OpOn(twin.layers, twin.rng, op)
             IN  twin' = [twin EXCEPT !.layers = b.layers, !.rng = b.rng]
    /\ UNCHANGED <<layers, res, hist, file, wres, calls>>

NextTwo ==
    \/ TwinOpA("add_layer")
    \/ TwinOpA("initialise")
    \/ TwinOpA("set_parameters")
    \/ TwinOpA("apply")
    \/ TwinOpA("apply_linearise")
    \/ TwinOpA("apply_tangent_linear_p")
    \/ TwinOpA("apply_adjoint_p")
    \/ TwinOpB("add_layer")
    \/ TwinOpB("initialise")
    \/ TwinOpB("set_parameters")
    \/ TwinOpB("apply")
    \/ TwinOpB("apply_linearise")
    \/ TwinOpB("apply_tangent_linear_p")
    \/ TwinOpB("apply_adjoint_p")

SpecTwo == Init /\ [][NextTwo]_vars

\* ------------------------------------------------ the life-cycle specification
\* Two files a test reads: a relu layer behind an input normalisation, and a
\* dense layer of a Keras activation the reader does not know.
SampleNormIn ==
    [NoKwargs EXCEPT !.add_norm_in = <<TRUE>>,
                     !.norm_alpha_in = <<PerElement(Vec(1, 1))>>,
                     !.norm_beta_in = <<PerElement(Vec(2, 1))>>]

SampleDocs ==
    {keras_to_txt([name |-> "sequential", Nx |-> 1,
                   layers |-> <<KerasDense(1, 1, "relu", 0)>>], SampleNormIn).lines,
     keras_to_txt([name |-> "sequential", Nx |-> 1,
                   layers |-> <<KerasDense(1, 1, "sigmoid", 0)>>], NoKwargs).lines}

SampleReads == {<<doc, fromfile(doc)>> : doc \in SampleDocs}

FromSampleFile == \E s \in SampleReads : FromFileCall(s[1], s[2])

\* The life cycle of one network instance, from its construction.
Next ==
    \/ AddLayer
    \/ InitialiseNet
    \/ SetParametersCall
    \/ GetParametersCall
    \/ UpdateInPlace
    \/ ApplyCall(FALSE)
    \/ ApplyLineariseCall(FALSE)
    \/ TangentLinearXCall(FALSE)
    \/ AdjointXCall(FALSE)
    \/ TangentLinearPCall(FALSE)
    \/ AdjointPCall(FALSE)
    \/ TangentLinearCall(FALSE)
    \/ AdjointCall(FALSE)
    \/ FromSampleFile

Spec == Init /\ [][Next]_vars

\* ----------------------------------------------- the algebraic specification
\* The networks a test builds with add_layer (widths chained, dense layers
\* initialised with randn), then the calls that write no parameter.
AlgLayers(Nin) ==
    {DenseLayer(Nin, Nout, activation, "randn", seed, <<>>).layer[1] :
        Nout \in Widths, activation \in ActivationNames, seed \in AlgSeeds}
    \cup {NormalisationLayer(Nin, c[1], c[2]) : c \in Coefs(Nin)}

RECURSIVE NetworksOf(_)
NetworksOf(depth) ==
    IF depth = 0 THEN {<<>>}
    ELSE LET shorter == NetworksOf(depth - 1)
         IN  {ls \o <<l>> : ls \in shorter,
                            l \in UNION {AlgLayers(w) : w \in Widths}}

ChainedNetworks ==
    {ls \in UNION {NetworksOf(d) : d \in 0..MaxLayers} :
        \A k \in 1..(Len(ls) - 1) : ls[k].Nout = ls[k + 1].Nin}

InitAlg ==
    /\ layers \in ChainedNetworks
    /\ res = Call("init", "ok", <<>>, NoArg, NoArg)
    /\ hist = NeverLinearised
    /\ file = <<>>
    /\ wres = NotConverted
    /\ twin = NoTwin
    /\ calls = NoCalls

NextAlg ==
    \/ ApplyCall(TRUE)
    \/ ApplyLineariseCall(TRUE)
    \/ TangentLinearXCall(TRUE)
    \/ AdjointXCall(TRUE)
    \/ TangentLinearPCall(TRUE)
    \/ AdjointPCall(TRUE)
    \/ TangentLinearCall(TRUE)
    \/ AdjointCall(TRUE)

SpecAlg == InitAlg /\ [][NextAlg]_vars

\* ------------------------------------- apply_linearise calls that interleave
\* Thread t calls network.apply_linearise(x) on the network built by the
\* test; the loop over the layers runs one layer.apply_linearise at a time,
\* and nothing keeps another thread's loop from running between two layers.
InitRace ==
    /\ layers \in {ls \in ChainedNetworks : ls # <<>>}
    /\ res = Call("init", "ok", <<>>, NoArg, NoArg)
    /\ hist = NeverLinearised
    /\ file = <<>>
    /\ wres = NotConverted
    /\ twin = NoTwin
    /\ calls = NoCalls

\* the call is made
LineariseBegin(t) ==
    /\ calls[t].state = "idle"
    /\ \E x \in AlgVecs(layers[1].Nin) :
          calls' = [calls EXCEPT ![t] = [state |-> "running", k |-> 1, x0 |-> x, x |-> x]]
    /\ UNCHANGED <<layers, res, hist, file, wres, twin>>

\* x = layer.apply_linearise(x) for the next layer of the loop
LineariseLayer(t) ==
    /\ calls[t].state = "running" /\ calls[t].k <= Len(layers)
    /\ layers' = [layers EXCEPT ![calls[t].k] = LayerLinearised(@, calls[t].x)]
    /\ calls' = [calls EXCEPT ![t].x = LayerApplyLinearise(layers[calls[t].k], calls[t].x),
                              ![t].k = @ + 1]
    /\ UNCHANGED <<res, hist, file, wres, twin>>

\* return x
LineariseReturn(t) ==
    /\ calls[t].state = "running" /\ calls[t].k > Len(layers)
    /\ calls' = [calls EXCEPT ![t].state = "returned"]
    /\ res' = Call("apply_linearise", "ok", calls[t].x, calls[t].x0, NoArg)
    /\ hist' = [lin |-> "current", x |-> <<calls[t].x0>>, y |-> <<calls[t].x>>]
    /\ UNCHANGED <<layers, file, wres, twin>>

NextRace ==
    \/ \E t \in Threads : LineariseBegin(t)
    \/ \E t \in Threads : LineariseLayer(t)
    \/ \E t \in Threads : LineariseReturn(t)

SpecRace == InitRace /\ [][NextRace]_vars

\* ------------------------------------------------------------------ claims
LinearReluOnly(ls) ==
    \A k \in 1..Len(ls) : ls[k].kind = "dense" => ls[k].activation \in {"linear", "relu"}

Linearised == hist.lin = "current"

\* C1: adjoint identity.  On a linearised network of at least one layer
\* (dense linear/relu and normalisation layers), what apply_tangent_linear
\* (dp, dx) returned and what apply_adjoint(dy) returns satisfy
\* dot(dp_a, dp) + dot(dx_a, dx) = dot(dy_tl, dy) for every dy, and what
\* apply_adjoint(dy) returned satisfies it for every (dp, dx); dp_a has the
\* length num_parameters and dx_a the length Nin of the first layer.
C1_AdjointIdentity ==
    (Linearised /\ Len(layers) >= 1 /\ LinearReluOnly(layers)) =>
        /\ res.op = "apply_tangent_linear" =>
              /\ res.status = "ok"
              /\ \A n \in OutWidths : \A dy \in AlgVecs(n) :
                    LET a == NetAdjoint(layers, dy)
                    IN  /\ a.status = "ok"
                        /\ Dot(a.dp, res.arg) + Dot(a.dx, res.arg2) = Dot(res.value, dy)
        /\ res.op = "apply_adjoint" =>
              /\ res.status = "ok"
              /\ Len(res.value) = num_parameters(layers)
              /\ Len(res.arg2) = layers[1].Nin
              /\ \A n \in InWidths :
                    \A d \in TangentPairs(TRUE, num_parameters(layers), n) :
                    LET t == NetTangentLinear(layers, d[1], d[2])
                    IN  /\ t.status = "ok"
                        /\ Dot(res.value, d[1]) + Dot(res.arg2, d[2]) = Dot(t.value, res.arg)

\* a relu layer whose captured derivative holds both a 0 and a 1
MixedRelu(l) ==
    /\ l.kind = "dense" /\ l.activation = "relu" /\ l.activation_prime # Absent
    /\ \E i, j \in 1..l.Nout : l.activation_prime[1][i] = 0 /\ l.activation_prime[1][j] = 1

C1_Witness ==
    /\ Linearised /\ Len(layers) = 2 /\ LinearReluOnly(layers)
    /\ MixedRelu(layers[1]) /\ layers[2].kind = "dense"
    /\ res.op = "apply_adjoint" /\ res.status = "ok"
    /\ \E dp \in AlgVecs(num_parameters(layers)) : Dot(res.value, dp) # 0
    /\ \E dx \in AlgVecs(layers[1].Nin) : Dot(res.arg2, dx) # 0

\* every relu pre-activation has the same sign class (> 0, or <= 0) on the
\* forward passes from x and from x2
RECURSIVE SameSide(_, _, _)
SameSide(ls, x, x2) ==
    IF ls = <<>> THEN TRUE
    ELSE /\ (Head(ls).kind = "dense" /\ Head(ls).activation = "relu") =>
               \A j \in 1..Head(ls).Nout :
                   (PreActivation(Head(ls), x)[j] > 0) = (PreActivation(Head(ls), x2)[j] > 0)
         /\ SameSide(Tail(ls), LayerApply(Head(ls), x), LayerApply(Head(ls), x2))

\* C2: gradient law for the input.  After y = apply_linearise(x) on a network
\* of linear/relu dense layers and normalisation layers, when every relu
\* pre-activation is on the same side at x and at x + dx, apply(x + dx)
\* equals y + apply_tangent_linear_x(dx), the parameters being those of the
\* linearisation.
C2_GradientLawX ==
    (/\ Linearised /\ LinearReluOnly(layers)
     /\ res.op = "apply_tangent_linear_x" /\ Len(res.arg) = Len(hist.x[1])
     /\ SameSide(layers, hist.x[1], VAdd(hist.x[1], res.arg))) =>
        /\ res.status = "ok"
        /\ NetApply(layers, VAdd(hist.x[1], res.arg)) = VAdd(hist.y[1], res.value)

C2_Witness ==
    /\ Linearised /\ LinearReluOnly(layers) /\ Len(layers) = 2
    /\ MixedRelu(layers[1])
    /\ res.op = "apply_tangent_linear_x" /\ res.status = "ok"
    /\ SameSide(layers, hist.x[1], VAdd(hist.x[1], res.arg))
    /\ res.value # Zeros(Len(res.value))
    /\ NetApply(layers, VAdd(hist.x[1], res.arg)) # hist.y[1]

\* C3: parameter partition invariant.  In every reachable state the sum of
\* the layers' num_parameters equals network.num_parameters and the length
\* of network.parameters, and reading network.parameters succeeds.
C3_PartitionInvariant ==
    /\ SumTo([k \in 1..Len(layers) |-> layers[k].num_parameters], Len(layers))
          = num_parameters(layers)
    /\ GetParameters(layers).status = "ok"
    /\ Len(GetParameters(layers).value) = num_parameters(layers)
    /\ res.op = "get_parameters" => res.status = "ok"

HasDense(ls) == \E k \in 1..Len(ls) : ls[k].kind = "dense"

\* the claim of C3 on the networks that hold a layer
NonEmptyPartition ==
    Len(layers) >= 1 =>
        /\ GetParameters(layers).status = "ok"
        /\ Len(GetParameters(layers).value) = num_parameters(layers)

\* C4: setting network.parameters (of a network with a dense layer) to a
\* vector of the wrong length fails with ParameterLengthMismatch and leaves
\* every layer's parameters as they were.
C4_WrongLengthRejected ==
    [][(/\ res'.op = "set_parameters" /\ HasDense(layers)
        /\ Len(res'.arg) # num_parameters(layers)) =>
          /\ res'.status = "ParameterLengthMismatch"
          /\ \A k \in 1..Len(layers) : layers'[k].parameters = layers[k].parameters]_vars

\* the offset of layer k in the network's parameter vector
Offset(ls, k) == num_parameters(SubSeq(ls, 1, k - 1))

\* C5: setter/getter round trip.  After network.parameters = p with
\* len(p) = num_parameters, layer k holds p[o_k : o_k + n_k] and reading
\* network.parameters returns p.
C5_RoundTrip ==
    (res.op = "set_parameters" /\ Len(res.arg) = num_parameters(layers)) =>
        /\ res.status = "ok"
        /\ \A k \in 1..Len(layers) :
              layers[k].parameters
                 = Slice(res.arg, Offset(layers, k), Offset(layers, k) + layers[k].num_parameters)
        /\ GetParameters(layers) = Ok(res.arg)

DerivativeOps ==
    {"apply_tangent_linear_x", "apply_tangent_linear_p", "apply_adjoint_x",
     "apply_adjoint_p", "apply_tangent_linear", "apply_adjoint"}

\* the claim of C5 on the networks that hold a layer
NonEmptyRoundTrip ==
    (res.op = "set_parameters" /\ Len(res.arg) = num_parameters(layers)
     /\ Len(layers) >= 1) =>
        /\ res.status = "ok"
        /\ \A k \in 1..Len(layers) :
              layers[k].parameters
                 = Slice(res.arg, Offset(layers, k), Offset(layers, k) + layers[k].num_parameters)
        /\ GetParameters(layers) = Ok(res.arg)

\* C6: a derivative operation on an instance (with a dense layer) on which
\* apply_linearise was never called fails with NotLinearised and returns no
\* value.
C6_NotLinearisedRejected ==
    (res.op \in DerivativeOps /\ hist.lin = "never" /\ HasDense(layers)) =>
        res.status = "NotLinearised"

\* C7: a parameter mutation after apply_linearise invalidates the
\* linearisation point: a derivative call before a new apply_linearise is
\* rejected as not linearised, never computed from the new weights.
C7_MutationInvalidates ==
    (res.op \in DerivativeOps /\ hist.lin = "mutated") => res.status = "NotLinearised"

\* the names that open a record or a document; every other string line of a
\* document is the activation name of a dense record
RecordNames == {"dense", "normalisation", "dropout"}

HasUnknownActivation(doc) ==
    \E k \in 1..Len(doc) :
        /\ doc[k].k = "str"
        /\ doc[k].s \notin RecordNames \cup ActivationNames \cup {"sequential"}

\* what every step that constructs a dense layer of an unknown activation
\* name (through add_layer, which calls the constructor directly, or while
\* fromfile parses a file that has a dense record of that name) does: it
\* raises the error `raised`, and the network keeps the layers it had
UnknownActivationRaises(raised) ==
    /\ (res'.op = "add_layer" /\ res'.arg[1] = "dense"
        /\ res'.arg[2] \notin ActivationNames)
          => (res'.status = raised /\ layers' = layers)
    /\ (res'.op = "fromfile" /\ HasUnknownActivation(res'.arg))
          => (res'.status = raised /\ layers' = layers)

RecordsWritten(doc) ==
    Cardinality({k \in 3..Len(doc) : doc[k].k = "str" /\ doc[k].s \in RecordNames})

OnlyDenseDropout(model) ==
    \A k \in 1..Len(model.layers) : model.layers[k].class_name \in {"Dense", "Dropout"}

\* C9: for every model made of Dense and Dropout layers, every dropout_rates
\* value and every combination of ignore_dropout, add_norm_in and
\* add_norm_out, the count N that keras_to_txt wrote on the second line
\* equals the number of records written after it.
C9_RecordCount ==
    (wres.status # "none" /\ OnlyDenseDropout(wres.model) /\ Len(file) >= 2)
        => file[2] = IntLine(RecordsWritten(file))

\* the count is right in every document of a conversion that completed
CompletedRecordCount ==
    wres.status = "ok" => (Len(file) >= 2 /\ file[2] = IntLine(RecordsWritten(file)))

\* the network the round trip should return: one layer per record
RECURSIVE ExpectedDense(_, _)
ExpectedDense(ls, width) ==
    IF ls = <<>> THEN <<>>
    ELSE <<[kind |-> "dense", Nin |-> width, Nout |-> Head(ls).units,
            parameters |-> Head(ls).bias \o Head(ls).kernel,
            activation |-> Head(ls).activation, alpha |-> NoCoef, beta |-> NoCoef]>>
         \o ExpectedDense(Tail(ls), Head(ls).units)

ExpectedNorm(add, width, alpha, beta) ==
    IF Flag(add)
    THEN <<[kind |-> "normalisation", Nin |-> width, Nout |-> width, parameters |-> <<>>,
            activation |-> "none", alpha |-> alpha[1], beta |-> beta[1]]>>
    ELSE <<>>

ExpectedLayers(model, kwargs) ==
    ExpectedNorm(kwargs.add_norm_in, model.Nx, kwargs.norm_alpha_in, kwargs.norm_beta_in)
    \o ExpectedDense(model.layers, model.Nx)
    \o ExpectedNorm(kwargs.add_norm_out, FinalWidth(model.layers, model.Nx),
                    kwargs.norm_alpha_out, kwargs.norm_beta_out)

SameCoef(a, b, n) == \A i \in 1..n : Coef(a, i) = Coef(b, i)

SameLayer(l, e) ==
    /\ l.kind = e.kind /\ l.Nin = e.Nin /\ l.Nout = e.Nout
    /\ l.parameters = e.parameters /\ l.activation = e.activation
    /\ l.kind = "normalisation" =>
          (SameCoef(l.alpha, e.alpha, e.Nin) /\ SameCoef(l.beta, e.beta, e.Nin))

\* a sequential model of Dense layers (linear, tanh or relu), no dropout,
\* and normalisations whose alpha and beta are both given
Supplied(add, alpha, beta) == Flag(add) => (alpha # <<>> /\ beta # <<>>)

InRoundTripScope(w) ==
    /\ w.status # "none"
    /\ IsSequentialName(w.model.name)
    /\ \A k \in 1..Len(w.model.layers) :
          /\ w.model.layers[k].class_name = "Dense"
          /\ w.model.layers[k].activation \in ActivationNames
    /\ w.kwargs.dropout_rates = NoRates
    /\ Supplied(w.kwargs.add_norm_in, w.kwargs.norm_alpha_in, w.kwargs.norm_beta_in)
    /\ Supplied(w.kwargs.add_norm_out, w.kwargs.norm_alpha_out, w.kwargs.norm_beta_out)

RoundTripExact ==
    /\ wres.status = "ok"
    /\ res.op = "fromfile" =>
          LET expected == ExpectedLayers(wres.model, wres.kwargs)
          IN  /\ res.status = "ok"
              /\ Len(layers) = Len(expected)
              /\ \A k \in 1..Len(expected) : SameLayer(layers[k], expected[k])

\* C10: for every model of Dense layers (linear, tanh or relu) with optional
\* input and output normalisation whose alpha and beta are scalars or
\* per-element vectors, keras_to_txt writes a document from which fromfile
\* returns one layer per record, in order, with the same Nin, Nout, parameter
\* block, activation name and normalisation coefficients.
C10_RoundTrip == InRoundTripScope(wres) => RoundTripExact

\* the round trip is exact when the coefficients are vectors and no number
\* has more significant digits than FLOAT_FORMAT keeps
NoScalar(opt) == opt = <<>> \/ ~opt[1].scalar

ShortMantissas(model) ==
    \A k \in 1..Len(model.layers) :
        LET parameters == model.layers[k].bias \o model.layers[k].kernel
        IN  \A i \in 1..Len(parameters) : NumDigits(Abs(parameters[i])) <= SigDigits

VectorRoundTrip ==
    (/\ InRoundTripScope(wres)
     /\ NoScalar(wres.kwargs.norm_alpha_in) /\ NoScalar(wres.kwargs.norm_beta_in)
     /\ NoScalar(wres.kwargs.norm_alpha_out) /\ NoScalar(wres.kwargs.norm_beta_out)
     /\ ShortMantissas(wres.model))
        => RoundTripExact

\* SequentialNetwork.apply calls layer.apply on every entry of layers: an
\* entry None has no apply, and the call dies with an AttributeError
CanApply(ls) == \A k \in 1..Len(ls) : ls[k].kind # "None"

HasDropoutRecord(doc) == \E k \in 3..Len(doc) : doc[k] = StrLine("dropout")

\* the lines of a document without its dropout records (the name, the width
\* and the rate of each), and the document with the count lowered to match
RECURSIVE StripDropout(_)
StripDropout(lines) ==
    IF lines = <<>> THEN <<>>
    ELSE IF Head(lines) = StrLine("dropout")
         THEN StripDropout(SubSeq(lines, 4, Len(lines)))
    ELSE <<Head(lines)>> \o StripDropout(Tail(lines))

WithoutDropout(doc) ==
    LET records == StripDropout(SubSeq(doc, 3, Len(doc)))
    IN  <<doc[1], IntLine(RecordsWritten(<<doc[1], doc[2]>> \o records))>> \o records

NoPlaceholders(ls) == SelectSeq(ls, LAMBDA l : l.kind # "None")

\* C11: a document with dropout records, as keras_to_txt writes them, is
\* parsed into a network in which each dropout record is a no-op placeholder:
\* the following records are read correctly and the network can be applied,
\* its layers other than the placeholders being those parsed from the same
\* document without the dropout records.
C11_DropoutIsNoOp ==
    (wres.status = "ok" /\ HasDropoutRecord(file) /\ res.op = "fromfile")
        => /\ res.status = "ok"
           /\ CanApply(layers)
           /\ NoPlaceholders(layers) = fromfile(WithoutDropout(file)).value[1]

\* the records after a dropout record are misread: a document of two dense
\* records, each with a dropout sub-record, gives one dense layer and three
\* None
DropoutMisread ==
    /\ wres.status = "ok" /\ res.op = "fromfile" /\ res.status = "ok"
    /\ Len(wres.model.layers) = 2
    /\ Len(layers) = 4
    /\ layers[1].kind = "dense"
    /\ \A k \in 2..4 : layers[k].kind = "None"

\* a sequential document whose first record is of no known layer kind
FirstRecordUnknown(doc) ==
    /\ Len(doc) >= 3
    /\ doc[1] = StrLine("sequential")
    /\ doc[3].k = "str" /\ doc[3].s \notin RecordNames

\* C12: when fromfile meets a record whose kind is not a known layer kind, it
\* aborts the parsing of that network: it reads no further record and does
\* not return a network with an entry for the unknown record.
C12_UnknownRecordAborts ==
    (res.op = "fromfile" /\ FirstRecordUnknown(res.arg))
        => ~(res.status = "ok" /\ res.value # <<>> /\ Len(layers) > 0)

\* C13: fromfile applied to a document whose first line is not `sequential`
\* surfaces an error to the caller; it does not return normally.
C13_OtherRootRejected ==
    (res.op = "fromfile" /\ Len(res.arg) >= 1 /\ res.arg[1] # StrLine("sequential"))
        => res.status # "ok"

\* a sequential document that ends before the N records it announces
EndsEarly(doc) ==
    /\ Len(doc) >= 2
    /\ doc[1] = StrLine("sequential") /\ doc[2].k = "int"
    /\ RecordsWritten(doc) < doc[2].v[1]

\* a dense record whose parameter block has not Nout*(Nin+1) values
BadBlock(doc) ==
    \E k \in 3..(Len(doc) - 3) :
        /\ doc[k] = StrLine("dense")
        /\ doc[k + 1].k = "int" /\ doc[k + 2].k = "int" /\ doc[k + 3].k = "floats"
        /\ Len(doc[k + 3].v) # doc[k + 2].v[1] * (doc[k + 1].v[1] + 1)

\* C14: when the document ends before N records have been read, or a dense
\* record's parameter block does not hold exactly Nout*(Nin+1) values,
\* fromfile surfaces an error to the caller and returns no network.
C14_MalformedRejected ==
    (res.op = "fromfile" /\ (EndsEarly(res.arg) \/ BadBlock(res.arg)))
        => res.status # "ok"

\* of the malformed documents, those cut inside a dense record and those
\* whose block has more than one value, but not Nout*(Nin+1), are rejected
\* with the ValueError of int() or of the assignment parameters[:] = value
LongBlockRejected ==
    (/\ res.op = "fromfile"
     /\ res.arg \in {Header("sequential", 1) \o <<StrLine("dense"), IntLine(1), IntLine(1)>>,
                     Header("sequential", 1) \o DenseRecord(<<2, -1, 3>>)})
        => res.status = "ValueError"

AllDense(model) ==
    \A k \in 1..Len(model.layers) : model.layers[k].class_name = "Dense"

\* a converted model of Dense layers only, written without dropout records
\* by either writer, and read back
DenseRoundTrip ==
    /\ wres.status = "ok" /\ AllDense(wres.model) /\ ~HasDropoutRecord(file)
    /\ res.op = "fromfile" /\ res.status = "ok"

\* the record of the k-th Dense layer starts after the header, the input
\* normalisation record if any, and the k-1 dense records before it: the
\* place of its parameter block in the file, and of its layer in the network
BlockOf(k) == file[2 + (IF Flag(wres.kwargs.add_norm_in) THEN 4 ELSE 0) + 5 * (k - 1) + 4].v

ParsedDense(k) == layers[(IF Flag(wres.kwargs.add_norm_in) THEN 1 ELSE 0) + k]

ParametersOf(ls) == [k \in 1..Len(ls) |-> ls[k].parameters]

\* C16: apply_linearise returns the same output as apply: for every
\* activation, every dense or normalisation layer and every network, and
\* every input x, apply_linearise(x) = apply(x) under the same parameters,
\* and neither call changes the parameters.
C16_LineariseIsApply ==
    [][/\ res'.op = "apply_linearise" =>
             /\ res'.value = NetApply(layers, res'.arg)
             /\ res'.value = NetApply(layers', res'.arg)
             /\ ParametersOf(layers') = ParametersOf(layers)
       /\ res'.op = "apply" =>
             /\ res'.value = NetApply(layers, res'.arg)
             /\ layers' = layers]_vars

\* apply_linearise on a network of a tanh and a relu layer has returned a
\* value that is not its input, and has stored both derivatives
C16_Witness ==
    /\ res.op = "apply_linearise"
    /\ Len(layers) = 2
    /\ layers[1].kind = "dense" /\ layers[1].activation = "tanh"
    /\ layers[2].kind = "dense" /\ layers[2].activation = "relu"
    /\ layers[1].activation_prime # <<>> /\ layers[2].activation_prime # <<>>
    /\ res.value # res.arg
    /\ \E j \in 1..Len(res.value) : res.value[j] > 0

\* the lines of the record that follows the first dense record of the file
AfterFirstDense ==
    LET first == 3 + (IF Flag(wres.kwargs.add_norm_in) THEN 4 ELSE 0)
    IN  SubSeq(file, first + 5, first + 7)

DropoutSubRecord(width, rate) ==
    <<StrLine("dropout"), IntLine(width), FloatLine(<<rate>>)>>

\* C18: when dropout_rates is a single float r, keras_to_txt adds a dropout
\* sub-record with rate r after each internal layer of the model (here: after
\* the first of two Dense layers, which is internal on any reading); when it
\* is None, no dropout sub-record is added.
C18_FloatRateAddsDropout ==
    (wres.status = "ok" /\ AllDense(wres.model))
        => /\ (wres.kwargs.dropout_rates.t = "float" /\ Len(wres.model.layers) = 2)
                 => AfterFirstDense = DropoutSubRecord(wres.model.layers[1].units,
                                                       wres.kwargs.dropout_rates.v)
           /\ wres.kwargs.dropout_rates = NoRates => ~HasDropoutRecord(file)

\* the same with a single int r, which the code does take
IntRateAddsDropout ==
    (/\ wres.status = "ok" /\ AllDense(wres.model)
     /\ wres.kwargs.dropout_rates.t = "int" /\ Len(wres.model.layers) = 2)
        => AfterFirstDense = DropoutSubRecord(wres.model.layers[1].units,
                                              wres.kwargs.dropout_rates.v)

\* the names of the records of a document, in order
RecordNamesOf(doc) ==
    LET names == SelectSeq(doc, LAMBDA line : line.k = "str" /\ line.s \in RecordNames)
    IN  [k \in 1..Len(names) |-> names[k].s]

Count(names, name) == Cardinality({k \in 1..Len(names) : names[k] = name})

\* the output width and activation of the dense records of some lines, in order
RECURSIVE DenseRecordsOf(_)
DenseRecordsOf(lines) ==
    IF lines = <<>> THEN <<>>
    ELSE IF Head(lines) = StrLine("dense") /\ Len(lines) >= 5
         THEN <<[units |-> lines[3].v, activation |-> lines[5].s]>>
              \o DenseRecordsOf(SubSeq(lines, 6, Len(lines)))
    ELSE DenseRecordsOf(Tail(lines))

DenseLayersOf(model) ==
    LET dense == SelectSeq(model.layers, LAMBDA layer : layer.class_name = "Dense")
    IN  [k \in 1..Len(dense) |-> [units |-> <<dense[k].units>>,
                                  activation |-> dense[k].activation]]

\* the order of a document: `sequential`, the count, an input normalisation
\* record iff add_norm_in is requested, the records of the layers in forward
\* order, an output normalisation record iff add_norm_out is requested, and
\* no other line
DocumentInOrder ==
    LET names == RecordNamesOf(file)
        nin == IF Flag(wres.kwargs.add_norm_in) THEN 1 ELSE 0
        nout == IF Flag(wres.kwargs.add_norm_out) THEN 1 ELSE 0
    IN  /\ Len(file) >= 2
        /\ file[1] = StrLine("sequential") /\ file[2].k = "int"
        /\ Count(names, "normalisation") = nin + nout
        /\ nin = 1 => (names[1] = "normalisation" /\ file[3] = StrLine("normalisation"))
        /\ nout = 1 => (names[Len(names)] = "normalisation"
                        /\ file[Len(file) - 3] = StrLine("normalisation"))
        /\ DenseRecordsOf(file) = DenseLayersOf(wres.model)
        /\ Len(file) = 2 + 4 * Count(names, "normalisation") + 5 * Count(names, "dense")
                         + 3 * Count(names, "dropout")

\* C19: every document written by keras_to_txt consists of, in this order:
\* the line `sequential`, the record count, an input normalisation record iff
\* add_norm_in is requested, the records of the model layers in forward
\* order, and an output normalisation record iff add_norm_out is requested;
\* absent flags mean not requested, and nothing else is written.
C19_DocumentOrder == (wres.status # "none" /\ file # <<>>) => DocumentInOrder

\* the documents of the conversions that completed are in this order
CompletedDocumentOrder == wres.status = "ok" => DocumentInOrder

\* dy back-propagated through apply_adjoint_x of the layers L, L-1, ..., k+1
RECURSIVE BackPropagated(_, _, _)
BackPropagated(ls, dy, k) ==
    IF Len(ls) <= k THEN Ok(dy)
    ELSE LET ax == LayerAdjointX(ls[Len(ls)], dy)
         IN  IF ax.status # "ok" THEN ax
             ELSE BackPropagated(SubSeq(ls, 1, Len(ls) - 1), ax.value, k)

\* the k-th block of dp by the parameter partition boundaries
AdjointBlock(dp, k) ==
    Slice(dp, Offset(layers, k), Offset(layers, k) + layers[k].num_parameters)

\* C20: apply_adjoint_p reassembles the per-layer contributions in forward
\* layer order.  On a linearised network of L >= 1 layers, for every dy, the
\* result has the length num_parameters and its k-th block, by the parameter
\* partition boundaries, is layer k's apply_adjoint_p(dy_k), with dy_L = dy
\* and dy_k the dy back-propagated through apply_adjoint_x of the layers
\* L, ..., k+1; a normalisation layer contributes an empty block.
C20_ForwardOrder ==
    (res.op = "apply_adjoint_p" /\ Len(layers) >= 1 /\ Linearised) =>
        /\ res.status = "ok"
        /\ Len(res.value) = num_parameters(layers)
        /\ \A k \in 1..Len(layers) :
              LET dyk == BackPropagated(layers, res.arg, k)
              IN  /\ dyk.status = "ok"
                  /\ Ok(AdjointBlock(res.value, k)) = LayerAdjointP(layers[k], dyk.value)
                  /\ layers[k].kind = "normalisation" => AdjointBlock(res.value, k) = <<>>

\* a network of two dense layers whose blocks differ, and whose first block
\* is not what the layer returns for the dy that was not back-propagated
C20_Witness ==
    /\ res.op = "apply_adjoint_p" /\ res.status = "ok" /\ Linearised
    /\ Len(layers) = 2 /\ layers[1].kind = "dense" /\ layers[2].kind = "dense"
    /\ layers[1].Nout = Len(res.arg)
    /\ AdjointBlock(res.value, 1) # AdjointBlock(res.value, 2)
    /\ Ok(AdjointBlock(res.value, 1)) # LayerAdjointP(layers[1], res.arg)
    /\ \E i \in 1..Len(res.value) : res.value[i] # 0

\* C17: independent network instances share no state.  For two separately
\* constructed networks, under every interleaving of their calls (apply,
\* apply_linearise, derivative calls, parameter writes, initialise with zero
\* or randn), every result the first network returned and its state
\* (parameters, captured inputs, activation derivatives) are what they are
\* in the run where the second network's calls did not happen.
C17_NoSharedState == layers = twin.alone /\ res = twin.aloneRes

\* while the second network has taken nothing from np.random.randn, the first
\* one is as it is by itself
UnaffectedWithoutDraws ==
    twin.rng = twin.aloneRng => (layers = twin.alone /\ res = twin.aloneRes)

\* the calls of the second network change the first one's state in no step
SecondLeavesFirstAlone ==
    [][twin'.layers # twin.layers => UNCHANGED <<layers, res, hist>>]_vars

\* dp_k: the part of dp between the parameter partition boundaries of layer k
PartOf(dp, k) ==
    Slice(dp, Offset(layers, k), Offset(layers, k) + layers[k].num_parameters)

\* a layer's own term: activation_prime * (dW x + db) for a dense layer, with
\* x the captured input, db = dp[:Nout] and dW[j, i] = dp[Nout + j + i*Nout];
\* zeros for a normalisation layer
OwnTerm(l, dp) ==
    IF l.kind = "dense"
    THEN [j \in 1..l.Nout |->
             (IF l.activation = "linear" THEN 1 ELSE l.activation_prime[1][j])
             * (SumTo([i \in 1..l.Nin |-> dp[l.Nout + j + (i - 1) * l.Nout] * l.x[1][i]],
                      l.Nin)
                + dp[j])]
    ELSE Zeros(l.Nout)

\* d_1 = own term of layer 1; d_k = layer_k.apply_tangent_linear_x(d_{k-1}) + own term
RECURSIVE Accumulated(_, _)
Accumulated(dp, k) ==
    IF k = 1 THEN OwnTerm(layers[1], PartOf(dp, 1))
    ELSE VAdd(LayerTangentLinearX(layers[k], Accumulated(dp, k - 1)).value,
              OwnTerm(layers[k], PartOf(dp, k)))

\* C21: apply_tangent_linear_p accumulates forward.  On a linearised network
\* of L >= 1 layers, with dp split at the parameter partition boundaries, the
\* result is d_L, where d_1 is layer 1's own term (no upstream term) and
\* d_k = layer_k.apply_tangent_linear_x(d_{k-1}) + layer k's own term; a dense
\* layer's own term is activation_prime * (dW x + db), x the captured input
\* and (db, dW) read bias first, then the weights column by column.
C21_ForwardAccumulation ==
    (res.op = "apply_tangent_linear_p" /\ Len(layers) >= 1 /\ Linearised
        /\ Len(res.arg) = num_parameters(layers)) =>
        /\ res.status = "ok"
        /\ res.value = Accumulated(res.arg, Len(layers))

\* two dense layers, the second with several inputs and outputs, where the
\* upstream term and the own term of the second layer are both non-zero and
\* the sum is neither of them
C21_Witness ==
    /\ res.op = "apply_tangent_linear_p" /\ res.status = "ok" /\ Linearised
    /\ Len(layers) = 2 /\ layers[1].kind = "dense" /\ layers[2].kind = "dense"
    /\ layers[2].Nin = 2 /\ layers[2].Nout = 2 /\ layers[2].activation = "relu"
    /\ LET up == LayerTangentLinearX(layers[2], Accumulated(res.arg, 1)).value
           own == OwnTerm(layers[2], PartOf(res.arg, 2))
       IN  /\ \E j \in 1..2 : up[j] # 0
           /\ \E j \in 1..2 : own[j] # 0
           /\ res.value # up /\ res.value # own

\* the calls that evaluate without linearising
NonLinearising ==
    {"apply", "apply_tangent_linear_x", "apply_tangent_linear_p", "apply_adjoint_x",
     "apply_adjoint_p", "apply_tangent_linear", "apply_adjoint"}

\* every dense layer of ls holds the image of x under the layers before it,
\* and the activation derivative at its pre-activation there
LinearisedAt(ls, x) ==
    \A k \in 1..Len(ls) :
        ls[k].kind = "dense" =>
            LET xk == NetApply(SubSeq(ls, 1, k - 1), x)
            IN  /\ ls[k].x = <<xk>>
                /\ ls[k].activation # "linear" =>
                      ls[k].activation_prime = ActPrime(ls[k].activation, PreActivation(ls[k], xk))

\* C22: only apply_linearise changes the linearisation state.  apply and the
\* six derivative calls leave every layer's parameters, captured input and
\* activation_prime unchanged, so after apply_linearise(x) every derivative
\* call, whatever calls came between, finds all layers linearised at x.
C22_OnlyLineariseChanges ==
    [][/\ res'.op \in NonLinearising => layers' = layers
       /\ hist'.lin = "current" => LinearisedAt(layers', hist'.x[1])]_vars

\* a derivative call that follows another call on a network linearised at a
\* relu layer with both derivative values
C22_Witness ==
    /\ Linearised /\ res.op = "apply_adjoint" /\ res.status = "ok"
    /\ Len(layers) = 2 /\ MixedRelu(layers[1]) /\ layers[2].kind = "dense"
    /\ LinearisedAt(layers, hist.x[1])
    /\ \E i \in 1..Len(res.value) : res.value[i] # 0

\* activation.apply(W x + b) with b[j] = parameters[j] and
\* W[j, i] = parameters[Nout + j + i*Nout] read from the parameter vector as
\* it is now (indices from 0 in the source, from 1 here)
FromParameters(l, x) ==
    ActApply(l.activation,
             [j \in 1..l.Nout |->
                 SumTo([i \in 1..l.Nin |-> l.parameters[l.Nout + j + (i - 1) * l.Nout] * x[i]],
                       l.Nin)
                 + l.parameters[j]])

Gated(z, d) == [i \in 1..Len(d) |-> IF z[i] > 0 THEN d[i] ELSE 0]

\* the pre-activation a linearised dense layer handed to its activation
LinearisedZ(l) == PreActivation(l, l.x[1])

\* C24: ReLU linearisation.  After ReluActivation.apply_linearise(z),
\* apply_tangent_linear(d) and apply_adjoint(d) both return d_i where z_i > 0
\* and 0 where z_i <= 0 (0 at z_i = 0), and apply_linearise returned
\* max(z, 0); for the linear activation both derivative operations return d.
C24_ReluLinearisation ==
    Linearised =>
        \A k \in 1..Len(layers) :
            layers[k].kind = "dense" =>
                \A d \in AlgVecs(layers[k].Nout) :
                    /\ layers[k].activation = "relu" =>
                          /\ ActTangentLinear("relu", layers[k].activation_prime, d)
                                = Ok(Gated(LinearisedZ(layers[k]), d))
                          /\ ActAdjoint("relu", layers[k].activation_prime, d)
                                = Ok(Gated(LinearisedZ(layers[k]), d))
                          /\ ActApplyLinearise("relu", LinearisedZ(layers[k]))
                                = [i \in 1..layers[k].Nout |->
                                      IF LinearisedZ(layers[k])[i] > 0
                                      THEN LinearisedZ(layers[k])[i] ELSE 0]
                    /\ layers[k].activation = "linear" =>
                          /\ ActTangentLinear("linear", layers[k].activation_prime, d) = Ok(d)
                          /\ ActAdjoint("linear", layers[k].activation_prime, d) = Ok(d)

\* a relu layer linearised at a pre-activation with a positive, and a zero
\* element, used by a derivative call
C24_Witness ==
    /\ Linearised /\ Len(layers) = 1
    /\ layers[1].kind = "dense" /\ layers[1].activation = "relu" /\ layers[1].Nout = 2
    /\ \E i, j \in 1..2 : LinearisedZ(layers[1])[i] = 0 /\ LinearisedZ(layers[1])[j] > 0
    /\ res.op = "apply_adjoint_x" /\ res.status = "ok"
    /\ \E i \in 1..2 : res.arg[i] # 0 /\ LinearisedZ(layers[1])[i] = 0

\* the rates given are not more than the layers
RatesFit(w) ==
    w.kwargs.dropout_rates.t = "list" => Len(w.kwargs.dropout_rates.l) <= Len(w.model.layers)

\* an identity normalisation record of width n at line k of the file:
\* alpha = 1 and beta = 0, as one number or as one per element
IdentityRecordAt(k, n) ==
    /\ Len(file) >= k + 3
    /\ file[k] = StrLine("normalisation") /\ file[k + 1] = IntLine(n)
    /\ file[k + 2] \in {FloatLine(<<1>>), FloatLine([i \in 1..n |-> 1])}
    /\ file[k + 3] \in {FloatLine(<<0>>), FloatLine(Zeros(n))}

\* C25: when add_norm_in is requested and norm_alpha_in and norm_beta_in are
\* not supplied, keras_to_txt completes and writes a normalisation record
\* with alpha = 1 and beta = 0 (the same for add_norm_out).
C25_DefaultIsIdentity ==
    (/\ wres.status # "none" /\ IsSequentialName(wres.model.name)
     /\ OnlyDenseDropout(wres.model) /\ RatesFit(wres)
     /\ Flag(wres.kwargs.add_norm_in)
     /\ wres.kwargs.norm_alpha_in = <<>> /\ wres.kwargs.norm_beta_in = <<>>
     /\ Supplied(wres.kwargs.add_norm_out, wres.kwargs.norm_alpha_out, wres.kwargs.norm_beta_out))
        => /\ wres.status = "ok"
           /\ IdentityRecordAt(3, wres.model.Nx)

\* with the defaults the conversion never completes: it raises TypeError
DefaultRaises ==
    (/\ wres.status # "none" /\ IsSequentialName(wres.model.name) /\ RatesFit(wres)
     /\ Flag(wres.kwargs.add_norm_in)
     /\ (wres.kwargs.norm_alpha_in = <<>> \/ wres.kwargs.norm_beta_in = <<>>))
        => wres.status = "TypeError"

\* the widths the records of some lines carry, in order: (Nin, Nout) of a
\* dense record, the one width of a normalisation or dropout record twice
RECURSIVE RecordWidthsOf(_)
RecordWidthsOf(lines) ==
    IF Len(lines) < 2 THEN <<>>
    ELSE IF Head(lines) = StrLine("dense") /\ Len(lines) >= 3
         THEN <<[name |-> "dense", Nin |-> lines[2].v[1], Nout |-> lines[3].v[1]]>>
              \o RecordWidthsOf(Tail(lines))
    ELSE IF Head(lines) \in {StrLine("normalisation"), StrLine("dropout")}
         THEN <<[name |-> Head(lines).s, Nin |-> lines[2].v[1], Nout |-> lines[2].v[1]]>>
              \o RecordWidthsOf(Tail(lines))
    ELSE RecordWidthsOf(Tail(lines))

\* the input width and the units of the Dense layers of a model, in order
DenseWidthsOf(model) ==
    LET at == {k \in 1..Len(model.layers) : model.layers[k].class_name = "Dense"}
        Nth(n) == CHOOSE k \in at : Cardinality({j \in at : j < k}) = n - 1
    IN  [n \in 1..Cardinality(at) |->
            [Nin |-> FinalWidth(SubSeq(model.layers, 1, Nth(n) - 1), model.Nx),
             Nout |-> model.layers[Nth(n)].units]]

\* C26: widths are chained in every document written by keras_to_txt.  The
\* first record carries the model input width, each dense record's Nin is the
\* output width of the model layer before it, each dropout record and the
\* output normalisation record carry the output width of the layer before
\* them, so consecutive records have matching Nout and Nin.
C26_WidthsChained ==
    (wres.status \notin {"none", "put"} /\ Len(file) >= 2) =>
        LET records == RecordWidthsOf(file)
            dense == SelectSeq(records, LAMBDA r : r.name = "dense")
            model == DenseWidthsOf(wres.model)
        IN  /\ records # <<>> => records[1].Nin = wres.model.Nx
            /\ \A k \in 1..(Len(records) - 1) : records[k].Nout = records[k + 1].Nin
            /\ Len(dense) <= Len(model)
            /\ \A k \in 1..Len(dense) :
                  dense[k].Nin = model[k].Nin /\ dense[k].Nout = model[k].Nout
            /\ (wres.status = "ok" /\ records # <<>>) =>
                  records[Len(records)].Nout = FinalWidth(wres.model.layers, wres.model.Nx)

\* a completed document of two dense layers of different widths, dropout
\* records and both normalisation records
C26_Witness ==
    /\ wres.status = "ok"
    /\ Flag(wres.kwargs.add_norm_in) /\ Flag(wres.kwargs.add_norm_out)
    /\ LET records == RecordWidthsOf(file)
       IN  /\ Len(records) >= 5
           /\ \E k \in 1..Len(records) : records[k].name = "dropout" /\ records[k].Nin = 2
           /\ \E k \in 1..Len(records) : records[k].name = "dense" /\ records[k].Nin # records[k].Nout
           /\ records[1].Nin # records[2].Nout

\* C27: keras_to_txt of src/keras_to_fnn.py writes all or nothing.  Whenever
\* it raises (UnsupportedModelException, UnsupportedLayerException for a
\* layer that is neither Dense nor Dropout, ValueError for too many dropout
\* rates), no header and no record has been written to the output file, so a
\* complete document is the only content the file can have.
C27_AllOrNothing ==
    /\ wres.status \in {"UnsupportedModelException", "UnsupportedLayerException", "ValueError"}
          => file = <<>>
    /\ (wres.status # "none" /\ file # <<>>) => wres.status = "ok"

\* the exceptions raised before the header leave the file empty
EarlyExceptionsWriteNothing ==
    wres.status \in {"UnsupportedModelException", "ValueError"} => file = <<>>

\* an unsupported layer is found after the header was written
UnsupportedLayerAfterHeader ==
    wres.status = "UnsupportedLayerException"
        => (Len(file) >= 2 /\ file[1] = StrLine("sequential") /\ file[2].k = "int")

BothReturned == \A t \in Threads : calls[t].state = "returned"

\* C28: consistency of the linearisation point across layers.  Once two
\* apply_linearise calls on the same network (inputs x1 and x2), whose
\* per-layer steps may interleave, have both completed, every dense layer is
\* linearised at the image of the same one of the two inputs: no derivative
\* call combines layers linearised at x1 with layers linearised at x2.
C28_OneLinearisationPoint ==
    BothReturned => \E t \in Threads : LinearisedAt(layers, calls[t].x0)

\* a call that ran with no other call in progress leaves the network
\* linearised at its input
CallAloneConsistent ==
    \A t, u \in Threads :
        (calls[t].state = "returned" /\ calls[u].state = "idle")
            => LinearisedAt(layers, calls[t].x0)

\* every call returns the value of the network at its own input
CallReturnsOwnValue ==
    \A t \in Threads :
        calls[t].state = "returned" => calls[t].x = NetApply(layers, calls[t].x0)

====
